---------------------------- MODULE Spec2Model ----------------------------
(***************************************************************************)
(* Model of the dictionary data engine of the Learn Language plugin:       *)
(*   - TermService (per-file write lock, inline-field and front-matter     *)
(*     rewrites, create / update / force-update of term notes);            *)
(*   - DictionaryService (time-boxed dictionary cache with invalidation,   *)
(*     the folder scan, parseFileToEntry and the verb enrichment);         *)
(*   - FilterService (applyFilters, getUniqueValues);                      *)
(*   - AskAIModal.handleAsk (ask, single retry, writes of the answer);     *)
(*   - OpenAIService (polling for the completion of a run);                *)
(*   - DictionaryComponent / VerbsComponent (facet options, verb filters); *)
(*   - usePagination (nextPage, prevPage);                                 *)
(*   - the learn-dictionary code block (filters written back, debounced).  *)
(*                                                                         *)
(* Strings are sequences of characters.  The token "<br>" is one           *)
(* character of the alphabet, " " is the only whitespace character.        *)
(* A note body is a sequence of lines; a line is a record                  *)
(*   [name |-> field name, sp |-> number of blanks before "::",            *)
(*    raw  |-> the text that follows "::"].                                *)
(***************************************************************************)
EXTENDS Integers, Sequences, FiniteSets, TLC

VARIABLES
  exists,       \* TermService: path -> the vault holds a TFile at that path
  content,      \* path -> body of the note (sequence of lines)
  fm,           \* path -> value of the source-language front-matter key
  fileLocks,    \* TermService.fileLocks: path -> ticket whose chained promise is stored (0: no entry)
  tickets,      \* one record per withFileLock invocation (its promises and the progress of fn)
  op,           \* task -> the TermService call the task is executing
  deleted,      \* number of notes removed from the vault by the user so far
  now,          \* DictionaryService: Date.now()
  storage,      \* file -> version of the note in the vault
  folderExists, \* the dictionary folder is a TFolder
  dictionaryCache,  \* DictionaryService.dictionaryCache (NoCache: null)
  cacheTimestamp,   \* DictionaryService.cacheTimestamp
  verbsCache,       \* DictionaryService.verbsCache: the collection it was computed from
                    \* (NoCache: null, -1: the empty array of a missing folder)
  call,         \* caller -> the getDictionary() / getVerbs() call it is executing
  calls,        \* number of getDictionary() / getVerbs() calls made so far
  gens,         \* history: one record per published collection (served: returned from the cache)
  invCount,     \* history: number of invalidateCache() calls so far
  ask,          \* AskAIModal / OpenAIService: the Ask-AI flow in progress
  arg,          \* FilterService / DictionaryService: the input of the function under study
  result        \* its result so far

termVars == <<exists, content, fm, fileLocks, tickets, op, deleted>>
dictVars == <<now, storage, folderExists, dictionaryCache, cacheTimestamp, verbsCache, call, calls, gens, invCount>>
vars == <<termVars, dictVars, ask, arg, result>>

-----------------------------------------------------------------------------
(* Strings *)

BR == "<br>"

\* String.prototype.trim: s from its first to its last non-blank character
Trim(s) ==
  LET S == {i \in 1..Len(s) : s[i] # " "}
  IN IF S = {} THEN <<>>
     ELSE SubSeq(s, CHOOSE i \in S : \A j \in S : i <= j, CHOOSE i \in S : \A j \in S : j <= i)

\* s.split("<br>").length
SplitCount(s) == Cardinality({i \in 1..Len(s) : s[i] = BR}) + 1

-----------------------------------------------------------------------------
(* Notes *)

Line(n, k, r) == [name |-> n, sp |-> k, raw |-> r]

\* Index of the first line "<fieldName><blanks>::...", 0 when no line matches;
\* atMostOne: the pattern is \s?:: (at most one blank), otherwise \s*::
MatchIdx(data, fieldName, atMostOne) ==
  LET S == {i \in 1..Len(data) :
              data[i].name = fieldName /\ (atMostOne => data[i].sp <= 1)}
  IN IF S = {} THEN 0 ELSE CHOOSE i \in S : \A j \in S : i <= j

\* TermService.getInlineFieldValue: ^F\s*::[^\S\n]*(.*)$ on the first matching line;
\* null (an empty capture) and "" are both represented by <<>>: every caller tests
\* the result for blankness only
getInlineFieldValue(data, fieldName) ==
  LET i == MatchIdx(data, fieldName, FALSE)
  IN IF i = 0 THEN <<>> ELSE Trim(data[i].raw)

\* Bug: shouldSkipClear is not honoured, a blank value erases the field
RewriteInlineAlways(data, fieldName, normalized, shouldSkipClear) ==
  LET i == MatchIdx(data, fieldName, TRUE)
  IN IF i = 0 THEN data
     ELSE [data EXCEPT ![i] = Line(fieldName, 0, <<" ">> \o normalized)]

\* The callback handed to vault.process by updateInlineFieldValue: ^F\s?::.* on the
\* first matching line, replaced by "F:: <normalized>"
RewriteInline(data, fieldName, normalized, shouldSkipClear) ==
  LET i == MatchIdx(data, fieldName, TRUE)
  IN IF i = 0 THEN data
     ELSE IF shouldSkipClear /\ Trim(data[i].raw) # <<>> THEN data
     ELSE [data EXCEPT ![i] = Line(fieldName, 0, <<" ">> \o normalized)]

\* Front-matter values: no key, a string; a non-string (number, list) has k = "other"
FmNone == [k |-> "none", v |-> <<>>]
FmStr(s) == [k |-> "str", v |-> s]

\* The callback handed to processFrontMatter by storeFrontmatterProperty
RewriteFrontmatter(current, normalized, shouldSkipClear) ==
  IF shouldSkipClear /\ current.k = "str" /\ Trim(current.v) # <<>> THEN current
  ELSE IF shouldSkipClear /\ current.k = "other" THEN current
  ELSE FmStr(normalized)

\* Bug: the default note has no Type line
getDefaultTermContentNoType ==
  << Line("Synonyms", 0, <<>>), Line("Context", 0, <<>>),
     Line("Examples", 0, <<>>), Line("Rating", 0, <<>>), Line("Relations", 0, <<>>),
     Line("Revision", 0, <<>>), Line("Project", 0, <<" ", "p">>) >>

\* TermService.getDefaultTermContent: the inline-field lines of the default note
\* ("p" stands for the link to the project page)
getDefaultTermContent ==
  << Line("Type", 0, <<>>), Line("Synonyms", 0, <<>>), Line("Context", 0, <<>>),
     Line("Examples", 0, <<>>), Line("Rating", 0, <<>>), Line("Relations", 0, <<>>),
     Line("Revision", 0, <<>>), Line("Project", 0, <<" ", "p">>) >>

-----------------------------------------------------------------------------
(* Terms and write requests *)

TermKeys == {"type", "context", "rating", "examples", "sourceTerm"}

Term(def, ty, cx, ra, ex, so) ==
  [def |-> def, type |-> ty, context |-> cx, rating |-> ra, examples |-> ex, sourceTerm |-> so]

\* JavaScript truthiness of term.<key>: defined and not the empty string
Truthy(term, key) == key \in term.def /\ term[key] # <<>>

\* One call of updateInlineFieldValue ("inline") or storeFrontmatterProperty ("fm")
Write(kind, field, value, allowClear) ==
  [kind |-> kind, field |-> field, value |-> value, allowClear |-> allowClear]

Opt(cond, w) == IF cond THEN <<w>> ELSE <<>>

\* TermService.updateTermFile: the writes it issues, in order
updateTermFile(term, allowClear) ==
     Opt("type" \in term.def, Write("inline", "Type", term.type, allowClear))
  \o Opt("context" \in term.def, Write("inline", "Context", term.context, allowClear))
  \o Opt("rating" \in term.def, Write("inline", "Rating", term.rating, allowClear))
  \o Opt("examples" \in term.def, Write("inline", "Examples", term.examples, allowClear))
  \o Opt("sourceTerm" \in term.def, Write("fm", "source", term.sourceTerm, allowClear))

\* TermService.updateTermPageProperties: the number of examples a note may hold
ExamplesLimit == 3

\* TermService.updateTermPageProperties: the writes it issues, in order, decided
\* from the content it read before the first write
updateTermPageProperties(data, term) ==
  LET normalizedExamples == IF "examples" \in term.def THEN Trim(term.examples) ELSE <<>>
      currentExamples == getInlineFieldValue(data, "Examples")
      currentExamplesCount == IF currentExamples # <<>> THEN SplitCount(currentExamples) ELSE 0
      \* the Examples value written when the trimmed incoming example is not empty
      examplesWrite ==
        IF currentExamples = <<>> \/ currentExamplesCount < ExamplesLimit
        THEN IF currentExamplesCount = 0
             THEN <<Write("inline", "Examples", normalizedExamples, FALSE)>>
             ELSE <<Write("inline", "Examples",
                          currentExamples \o <<BR>> \o normalizedExamples, FALSE)>>
        ELSE <<>>
  IN   Opt(getInlineFieldValue(data, "Type") = <<>> /\ Truthy(term, "type"),
           Write("inline", "Type", term.type, FALSE))
    \o Opt(getInlineFieldValue(data, "Context") = <<>> /\ Truthy(term, "context"),
           Write("inline", "Context", term.context, FALSE))
    \o Opt(getInlineFieldValue(data, "Rating") = <<>> /\ Truthy(term, "rating"),
           Write("inline", "Rating", term.rating, FALSE))
    \o (IF normalizedExamples # <<>> THEN examplesWrite ELSE <<>>)

\* TermService.injectTermValues / replaceInline: ^Key\s*::.*$ on the first matching line
replaceInline(data, key, value) ==
  LET i == MatchIdx(data, key, FALSE)
  IN IF value = <<>> \/ i = 0 THEN data
     ELSE [data EXCEPT ![i] = Line(key, 0, <<" ">> \o value)]

injectTermValues(data, term) ==
  LET r1 == IF Truthy(term, "type") THEN replaceInline(data, "Type", term.type) ELSE data
      r2 == IF Truthy(term, "context") THEN replaceInline(r1, "Context", term.context) ELSE r1
      r3 == IF Truthy(term, "rating") THEN replaceInline(r2, "Rating", term.rating) ELSE r2
  IN IF Truthy(term, "examples") THEN replaceInline(r3, "Examples", term.examples) ELSE r3

\* TermService.createTermFile: the writes it issues after vault.create, in order
createTermFileWrites(term) ==
     Opt(Truthy(term, "type"), Write("inline", "Type", term.type, FALSE))
  \o Opt(Truthy(term, "context"), Write("inline", "Context", term.context, FALSE))
  \o Opt(Truthy(term, "rating"), Write("inline", "Rating", term.rating, FALSE))
  \o Opt(Truthy(term, "examples"), Write("inline", "Examples", term.examples, FALSE))
  \o Opt(Truthy(term, "sourceTerm"), Write("fm", "source", term.sourceTerm, FALSE))

-----------------------------------------------------------------------------
(* TermService: state *)

\* Bounds of the model
NTasks == 2          \* concurrent callers of TermService
MaxDeletes == 1      \* notes the user removes while calls are in flight

Paths == {"a.md", "b.md"}
Tasks == 1..NTasks

\* Notes the vault may hold at "a.md" when the calls start ("b.md" does not exist)
NoteShapes ==
  { [body |-> getDefaultTermContent, fm |-> FmNone],
    [body |-> << Line("Type", 0, <<" ", "v">>), Line("Context", 1, <<" ", "c", " ">>),
                 Line("Examples", 0, <<" ", "e", BR, "e">>), Line("Rating", 0, <<>>) >>,
     fm |-> FmStr(<<"h">>)] }

\* Inputs of the calls
UpdateFieldCalls ==
  { [path |-> "a.md", w |-> Write("inline", "Type", <<>>, TRUE)],
    [path |-> "a.md", w |-> Write("inline", "Type", <<" ">>, FALSE)],
    [path |-> "a.md", w |-> Write("inline", "Type", <<" ", "y", " ">>, TRUE)],
    [path |-> "a.md", w |-> Write("inline", "Type", <<"x">>, FALSE)],
    [path |-> "a.md", w |-> Write("inline", "Examples", <<"x">>, TRUE)],
    [path |-> "a.md", w |-> Write("inline", "Examples", <<>>, TRUE)],
    [path |-> "b.md", w |-> Write("inline", "Type", <<"x">>, TRUE)] }
AiTerms ==
  { Term(TermKeys, <<"n">>, <<>>, <<>>, <<" ", "f", " ">>, <<"h">>) }
FileTerms ==
  { Term({"context", "sourceTerm"}, <<>>, <<>>, <<>>, <<>>, <<" ">>) }

IdleOp ==
  [kind |-> "none", pc |-> "idle", path |-> "a.md", term |-> Term({}, <<>>, <<>>, <<>>, <<>>, <<>>),
   todo |-> <<>>, ticket |-> 0, termUpdated |-> FALSE,
   seen |-> <<>>,        \* history: the content vault.read returned to the update path
   changed |-> FALSE,    \* history: some write of the call changed the note
   outcome |-> "none", notice |-> "none"]

\* Tasks are interchangeable: they issue their calls in the order of their numbers
MayCall(t) == op[t].pc = "idle" /\ \A u \in 1..(t - 1) : op[u].pc # "idle"

\* The promise `chained` of ticket k is resolved: `next` was resolved by release()
\* and the promise it was chained onto is resolved
RECURSIVE ChainedResolved(_)
ChainedResolved(k) ==
  IF tickets[k].released
  THEN (IF tickets[k].prev = 0 THEN TRUE ELSE ChainedResolved(tickets[k].prev))
  ELSE FALSE

\* Bug: fn is started without waiting for previous (await fn())
PreviousResolvedNoWait(k) == TRUE

\* withFileLock: `previous` of ticket k is resolved, so previous.then(fn) runs fn
PreviousResolved(k) ==
  IF tickets[k].prev = 0 THEN TRUE ELSE ChainedResolved(tickets[k].prev)

\* Bug: the map is not consulted, every request chains onto Promise.resolve()
PreviousIgnoringMap(locks, filePath) == 0

\* Bug: one chain for all the paths, a request chains onto the latest entry of the map
PreviousAnyPath(locks, filePath) ==
  CHOOSE k \in {locks[p] : p \in Paths} : \A p \in Paths : locks[p] <= k

\* withFileLock: const previous = this.fileLocks.get(filePath) || Promise.resolve()
\* (0 stands for Promise.resolve())
Previous(locks, filePath) == locks[filePath]

-----------------------------------------------------------------------------
(* TermService: operations.  An action is one turn of the event loop: the code *)
(* that runs from the completion of one storage call to the start of the next. *)

\* The vault holds at "a.md" a note of one of the shapes (present: TRUE), or no
\* note (present: FALSE); no call is in flight
TermInit(shapes, present) ==
  /\ \E n \in shapes, e \in present :
       /\ exists = [p \in Paths |-> p = "a.md" /\ e]
       /\ content = [p \in Paths |-> IF p = "a.md" /\ e THEN n.body ELSE <<>>]
       /\ fm = [p \in Paths |-> IF p = "a.md" /\ e THEN n.fm ELSE FmNone]
  /\ fileLocks = [p \in Paths |-> 0]
  /\ tickets = <<>>
  /\ op = [t \in Tasks |-> IdleOp]
  /\ deleted = 0

\* The call returns: the notice of the update and of the create path, the result
Finished(o) ==
  [o EXCEPT !.pc = "done", !.ticket = 0,
            !.outcome = IF o.kind \in {"update", "create"} THEN "file" ELSE "void",
            !.notice = CASE o.kind = "update" /\ o.termUpdated -> "updated"
                         [] o.kind = "update" -> "notUpdated"
                         [] o.kind = "create" -> "created"
                         [] OTHER -> "none"]

\* The caller o goes on to its next write: updateInlineFieldValue /
\* storeFrontmatterProperty up to the await of withFileLock (the file lookup, then
\* previous, next, chained and fileLocks.set), or returns when no write is left.
\* ex, tk, fl: exists, tickets and fileLocks as this turn has left them so far.
Request(t, o, ex, tk, fl) ==
  IF o.todo = <<>>
  THEN /\ op' = [op EXCEPT ![t] = Finished(o)]
       /\ tickets' = tk
       /\ fileLocks' = fl
  ELSE IF ~ex[o.path]
  THEN \* console.error("File not found"), return: so does every write that follows
       /\ op' = [op EXCEPT ![t] = Finished([o EXCEPT !.todo = <<>>, !.termUpdated = TRUE])]
       /\ tickets' = tk
       /\ fileLocks' = fl
  ELSE /\ tickets' = Append(tk,
             [path |-> o.path, task |-> t, w |-> Head(o.todo),
              prev |-> Previous(fl, o.path),
              released |-> FALSE, st |-> "queued", data |-> <<>>, fmData |-> FmNone])
       /\ fileLocks' = [fl EXCEPT ![o.path] = Len(tk) + 1]
       /\ op' = [op EXCEPT ![t] = [o EXCEPT !.pc = "locked", !.ticket = Len(tk) + 1]]

\* updateField(filePath, fieldName, fieldValue, allowClear)
updateField(t) ==
  /\ MayCall(t)
  /\ \E c \in UpdateFieldCalls :
       Request(t, [IdleOp EXCEPT !.kind = "updateField", !.path = c.path, !.todo = <<c.w>>],
               exists, tickets, fileLocks)
  /\ UNCHANGED <<exists, content, fm, deleted, dictVars, ask, arg, result>>

\* updateTermFile(file, term, allowClear): the caller holds a TFile
CallUpdateTermFile(t) ==
  /\ MayCall(t)
  /\ \E p \in Paths, term \in FileTerms, allowClear \in BOOLEAN :
       /\ exists[p]
       /\ Request(t, [IdleOp EXCEPT !.kind = "updateTermFile", !.path = p, !.term = term,
                                    !.todo = updateTermFile(term, allowClear)],
                  exists, tickets, fileLocks)
  /\ UNCHANGED <<exists, content, fm, deleted, dictVars, ask, arg, result>>

\* createOrUpdateTermPage(term): getAbstractFileByPath, then the update path
\* (await vault.read) or the create path (await vault.create)
createOrUpdateTermPage(t) ==
  /\ MayCall(t)
  /\ \E p \in Paths, term \in AiTerms :
       op' = [op EXCEPT ![t] = [IdleOp EXCEPT !.kind = IF exists[p] THEN "update" ELSE "create",
                                  !.pc = IF exists[p] THEN "read" ELSE "create",
                                  !.path = p, !.term = term]]
  /\ UNCHANGED <<exists, content, fm, fileLocks, tickets, deleted, dictVars, ask, arg, result>>

\* updateTermPageProperties: vault.read completes, the fields to write are decided
\* from that content; a read of a removed note raises and nothing catches it
ReadContent(t) ==
  /\ op[t].pc = "read"
  /\ LET p == op[t].path
     IN IF exists[p]
        THEN Request(t, [op[t] EXCEPT !.todo = updateTermPageProperties(content[p], op[t].term),
                                      !.seen = content[p]],
                     exists, tickets, fileLocks)
        ELSE /\ op' = [op EXCEPT ![t].pc = "done", ![t].outcome = "rejected"]
             /\ UNCHANGED <<fileLocks, tickets>>
  /\ UNCHANGED <<exists, content, fm, deleted, dictVars, ask, arg, result>>

\* Bug: vault.create replaces a note that is already there instead of raising
CreateFileOverwrites(t) ==
  /\ op[t].pc = "create"
  /\ LET p == op[t].path
     IN /\ exists' = [exists EXCEPT ![p] = TRUE]
        /\ content' = [content EXCEPT ![p] = injectTermValues(getDefaultTermContent, op[t].term)]
        /\ fm' = [fm EXCEPT ![p] = IF Truthy(op[t].term, "sourceTerm")
                                     THEN FmStr(op[t].term.sourceTerm) ELSE FmNone]
        /\ Request(t, [op[t] EXCEPT !.todo = createTermFileWrites(op[t].term)],
                   exists', tickets, fileLocks)
  /\ UNCHANGED <<deleted, dictVars, ask, arg, result>>

\* createTermFile: default content, injectTermValues, vault.create inside try;
\* vault.create raises when the path is taken and the catch returns null
CreateFile(t) ==
  /\ op[t].pc = "create"
  /\ LET p == op[t].path
     IN IF exists[p]
        THEN /\ op' = [op EXCEPT ![t].pc = "done", ![t].outcome = "null"]
             /\ UNCHANGED <<exists, content, fm, fileLocks, tickets>>
        ELSE /\ exists' = [exists EXCEPT ![p] = TRUE]
             /\ content' = [content EXCEPT ![p] = injectTermValues(getDefaultTermContent, op[t].term)]
             /\ fm' = [fm EXCEPT ![p] = IF Truthy(op[t].term, "sourceTerm")
                                          THEN FmStr(op[t].term.sourceTerm) ELSE FmNone]
             /\ Request(t, [op[t] EXCEPT !.todo = createTermFileWrites(op[t].term)],
                        exists', tickets, fileLocks)
  /\ UNCHANGED <<deleted, dictVars, ask, arg, result>>

\* Bug: no finally, release() is called only after fn has returned
ReleasedUnlessThrown(k) ==
  [tickets EXCEPT ![k].released = (tickets[k].st = "read"),
                  ![k].st = IF @ = "read" THEN "done" ELSE "failed"]

\* withFileLock, finally: release() and fileLocks.delete when the entry is still `chained`
Released(k) == [tickets EXCEPT ![k].released = TRUE, ![k].st = IF @ = "read" THEN "done" ELSE "failed"]
\* Bug: the entry is never deleted
UnlockedNever(k) == fileLocks

Unlocked(k) ==
  LET p == tickets[k].path
  IN IF fileLocks[p] = k THEN [fileLocks EXCEPT ![p] = 0] ELSE fileLocks

\* previous.then(fn): fn starts and vault.process / processFrontMatter reads the
\* note.  The storage call raises when the note is gone: finally releases the lock
\* and the exception reaches the caller (createTermFile catches it)
BodyRead(t) ==
  /\ op[t].pc = "locked"
  /\ LET k == op[t].ticket
         p == op[t].path
     IN /\ tickets[k].st = "queued"
        /\ PreviousResolved(k)
        /\ IF exists[p]
           THEN /\ tickets' = [tickets EXCEPT ![k].st = "read", ![k].data = content[p],
                                              ![k].fmData = fm[p]]
                /\ UNCHANGED <<fileLocks, op>>
           ELSE /\ tickets' = Released(k)
                /\ fileLocks' = Unlocked(k)
                /\ op' = [op EXCEPT ![t].pc = "done", ![t].ticket = 0,
                            ![t].outcome = IF op[t].kind = "create" THEN "null" ELSE "rejected"]
  /\ UNCHANGED <<exists, content, fm, deleted, dictVars, ask, arg, result>>

\* vault.process / processFrontMatter applies the callback to what it read and
\* saves; then finally releases the lock and the caller goes on
BodyWrite(t) ==
  /\ op[t].pc = "locked"
  /\ LET k == op[t].ticket
         p == op[t].path
         w == tickets[k].w
         normalized == Trim(w.value)
         shouldSkipClear == ~w.allowClear /\ Len(normalized) = 0
         newBody == IF w.kind = "inline"
                    THEN RewriteInline(tickets[k].data, w.field, normalized, shouldSkipClear)
                    ELSE content[p]
         newFm == IF w.kind = "fm"
                  THEN RewriteFrontmatter(tickets[k].fmData, normalized, shouldSkipClear)
                  ELSE fm[p]
     IN /\ tickets[k].st = "read"
        /\ content' = [content EXCEPT ![p] = newBody]
        /\ fm' = [fm EXCEPT ![p] = newFm]
        /\ Request(t, [op[t] EXCEPT !.todo = Tail(@), !.termUpdated = TRUE,
                                    !.changed = @ \/ newBody # content[p] \/ newFm # fm[p]],
                   exists, Released(k), Unlocked(k))
  /\ UNCHANGED <<exists, deleted, dictVars, ask, arg, result>>

\* The user removes a note (the vault applies process / processFrontMatter atomically
\* with respect to its own operations)
DeleteFile ==
  /\ deleted < MaxDeletes
  /\ \E p \in Paths :
       /\ exists[p]
       /\ \A k \in 1..Len(tickets) : tickets[k].path = p => tickets[k].st # "read"
       /\ exists' = [exists EXCEPT ![p] = FALSE]
       /\ content' = [content EXCEPT ![p] = <<>>]
       /\ fm' = [fm EXCEPT ![p] = FmNone]
  /\ deleted' = deleted + 1
  /\ UNCHANGED <<fileLocks, tickets, op, dictVars, ask, arg, result>>

\* Sequential use: a call is issued only when no other call is in flight, on notes
\* of more shapes, and no note is removed
NoteShapesSeq ==
  NoteShapes \cup
  { [body |-> << Line("Type", 0, <<" ", "v">>), Line("Rating", 0, <<"r">>) >>, fm |-> [k |-> "other", v |-> <<>>]],
    [body |-> << Line("Type", 0, <<>>), Line("Examples", 0, <<" ", "e">>) >>, fm |-> FmNone],
    [body |-> << Line("Type", 2, <<" ">>), Line("Type", 0, <<" ", "v">>),
                 Line("Examples", 0, <<"e", BR, "e", BR, "e">>), Line("Rating", 1, <<"r">>) >>,
     fm |-> FmStr(<<" ">>)],
    [body |-> << Line("Type", 0, <<" ", "v">>), Line("Rating", 0, <<>>),
                 Line("Type", 0, <<" ", "o">>) >>, fm |-> FmNone] }

NoneInFlight == \A t \in Tasks : op[t].pc \in {"idle", "done"}

-----------------------------------------------------------------------------
(* DictionaryService: the dictionary cache *)

cacheTTL == 5000

\* Bounds of the model
NCallers == 2        \* concurrent callers of getDictionary (views, code blocks)
MaxCalls == 3        \* getDictionary calls made in all
MaxChanges == 1      \* invalidations (note changes, settings changes, refreshes)
TickStep == 2500     \* milliseconds by which the clock advances in one step
MaxTime == 15000     \* the clock stops here

Callers == 1..NCallers
DictFiles == <<"x.md", "y.md">>
NoCache == 0

IdleCall ==
  [pc |-> "idle", next |-> 0, entries |-> <<>>, hit |-> FALSE, res |-> NoCache,
   verbs |-> FALSE,      \* the call is getVerbs()
   verbsHit |-> FALSE,   \* it returned verbsCache
   startTime |-> 0, startInv |-> 0, gensAtStart |-> 0, folderAtStart |-> TRUE, readInv |-> 0]

DictIdle ==
  /\ now = 0 /\ storage = <<>> /\ folderExists = TRUE /\ dictionaryCache = NoCache
  /\ cacheTimestamp = 0 /\ call = <<>> /\ calls = 0 /\ gens = <<>> /\ invCount = 0
  /\ verbsCache = NoCache

\* No call has just returned: the caller that awaits getDictionary() resumes in
\* the turn in which the call returns, before any other event is handled
Quiet == \A c \in Callers : call[c].pc # "done"

\* Bug: a collection exactly cacheTTL old is still served
isCacheValidInclusive(time, timestamp) == time - timestamp <= cacheTTL

\* DictionaryService.isCacheValid
isCacheValid(time, timestamp) == time - timestamp < cacheTTL

\* getDictionary() up to its first await: the cached array, or an empty array when
\* the folder is missing, or the start of the scan
getDictionary(c) ==
  \* callers are interchangeable: a call is made by the idle caller of lowest number
  /\ Quiet
  /\ call[c].pc = "idle"
  /\ calls < MaxCalls
  /\ \A d \in 1..(c - 1) : call[d].pc # "idle"
  /\ calls' = calls + 1
  /\ LET started == [call[c] EXCEPT !.startTime = now, !.startInv = invCount,
                                    !.gensAtStart = Len(gens), !.folderAtStart = folderExists]
     IN call' = [call EXCEPT ![c] =
          IF dictionaryCache # NoCache /\ isCacheValid(now, cacheTimestamp)
          THEN [started EXCEPT !.pc = "done", !.hit = TRUE, !.res = dictionaryCache]
          ELSE IF ~folderExists
          THEN [started EXCEPT !.pc = "done"]
          ELSE [started EXCEPT !.pc = "scan", !.next = 1]]
  /\ gens' = IF dictionaryCache # NoCache /\ isCacheValid(now, cacheTimestamp)
             THEN [gens EXCEPT ![dictionaryCache].served = TRUE]
             ELSE gens
  /\ UNCHANGED <<now, storage, folderExists, dictionaryCache, cacheTimestamp, verbsCache, invCount, termVars, ask, arg, result>>

\* getDictionary(): parseFileToEntry of the next file completes (await cachedRead);
\* after the last file the entries are sorted and published with the timestamp
ReadFile(c) ==
  /\ Quiet
  /\ call[c].pc = "scan"
  /\ LET i == call[c].next
         entries == Append(call[c].entries, storage[i])
         readInv == IF i = 1 THEN invCount ELSE call[c].readInv
     IN IF i < Len(DictFiles)
        THEN /\ call' = [call EXCEPT ![c].next = i + 1, ![c].entries = entries,
                                     ![c].readInv = readInv]
             /\ UNCHANGED <<dictionaryCache, cacheTimestamp, gens>>
        ELSE /\ gens' = Append(gens, [entries |-> entries, pubTime |-> now,
                                      pubInv |-> invCount, readInv |-> readInv,
                                      served |-> FALSE])
             /\ dictionaryCache' = Len(gens) + 1
             /\ cacheTimestamp' = now
             /\ call' = [call EXCEPT ![c].pc = "done", ![c].entries = entries,
                                     ![c].readInv = readInv, ![c].res = Len(gens) + 1]
  /\ UNCHANGED <<now, storage, folderExists, verbsCache, calls, invCount, termVars, ask, arg, result>>

\* The caller resumes with the result and may call again; getVerbs() resumes first
\* after its await of getDictionary(), computes the verbs and stores them
Return(c) ==
  /\ call[c].pc = "done"
  /\ call' = [call EXCEPT ![c] = IdleCall]
  /\ verbsCache' = IF call[c].verbs /\ ~call[c].verbsHit
                   THEN (IF call[c].res = NoCache THEN -1 ELSE call[c].res)
                   ELSE verbsCache
  /\ UNCHANGED <<now, storage, folderExists, dictionaryCache, cacheTimestamp, calls, gens, invCount, termVars, ask, arg, result>>

\* getVerbs() up to its first await: the cached verbs, or the call of getDictionary()
\* (its cached array, its empty array, or the start of its scan)
getVerbs(c) ==
  /\ Quiet
  /\ call[c].pc = "idle"
  /\ calls < MaxCalls
  /\ \A d \in 1..(c - 1) : call[d].pc # "idle"
  /\ calls' = calls + 1
  /\ LET started == [call[c] EXCEPT !.startTime = now, !.startInv = invCount, !.verbs = TRUE,
                                    !.gensAtStart = Len(gens), !.folderAtStart = folderExists]
         dictionaryHit == dictionaryCache # NoCache /\ isCacheValid(now, cacheTimestamp)
     IN IF verbsCache # NoCache /\ isCacheValid(now, cacheTimestamp)
        THEN /\ call' = [call EXCEPT ![c] = [started EXCEPT !.pc = "done", !.verbsHit = TRUE,
                                                             !.res = verbsCache]]
             /\ gens' = gens
        ELSE /\ call' = [call EXCEPT ![c] =
                  IF dictionaryHit
                  THEN [started EXCEPT !.pc = "done", !.hit = TRUE, !.res = dictionaryCache]
                  ELSE IF ~folderExists
                  THEN [started EXCEPT !.pc = "done"]
                  ELSE [started EXCEPT !.pc = "scan", !.next = 1]]
             /\ gens' = IF dictionaryHit THEN [gens EXCEPT ![dictionaryCache].served = TRUE]
                        ELSE gens
  /\ UNCHANGED <<now, storage, folderExists, dictionaryCache, cacheTimestamp, verbsCache, invCount, termVars, ask, arg, result>>

\* DictionaryService.invalidateCache (also updateSettings, the refresh actions)
invalidateCache ==
  /\ Quiet
  /\ invCount < MaxChanges
  /\ dictionaryCache' = NoCache
  /\ verbsCache' = NoCache
  /\ cacheTimestamp' = 0
  /\ invCount' = invCount + 1
  /\ UNCHANGED <<now, storage, folderExists, call, calls, gens, termVars, ask, arg, result>>

\* A note of the dictionary folder is modified: vault.on("modify") calls invalidateCache
ModifyNote ==
  /\ Quiet
  /\ invCount < MaxChanges
  /\ \E i \in DOMAIN DictFiles : storage' = [storage EXCEPT ![i] = @ + 1]
  /\ dictionaryCache' = NoCache
  /\ verbsCache' = NoCache
  /\ cacheTimestamp' = 0
  /\ invCount' = invCount + 1
  /\ UNCHANGED <<now, folderExists, call, calls, gens, termVars, ask, arg, result>>

\* The dictionary folder is removed or restored (the handlers of main.ts react to
\* files only)
ToggleFolder ==
  /\ Quiet
  /\ folderExists' = ~folderExists
  /\ UNCHANGED <<now, storage, dictionaryCache, cacheTimestamp, verbsCache, call, calls, gens, invCount, termVars, ask, arg, result>>

\* Date.now() advances
Tick ==
  /\ Quiet
  /\ now + TickStep <= MaxTime
  /\ now' = now + TickStep
  /\ UNCHANGED <<storage, folderExists, dictionaryCache, cacheTimestamp, verbsCache, call, calls, gens, invCount, termVars, ask, arg, result>>

-----------------------------------------------------------------------------
(* DictionaryService.parseFileToEntry: from a note to a dictionary entry *)

\* JavaScript values met in the front matter and in the inline fields; a number
\* is kept with its decimal text
JsUndef == [t |-> "undefined", v |-> <<>>]
JsNull == [t |-> "null", v |-> <<>>]
JsStr(s) == [t |-> "string", v |-> s]
JsNum(s) == [t |-> "number", v |-> s]

\* v !== undefined && v !== null
Defined(x) == x.t \notin {"undefined", "null"}

\* JavaScript truthiness of a value: not undefined, null, "" or 0
TruthyValue(x) ==
  CASE x.t = "string" -> x.v # <<>>
    [] x.t = "number" -> x.v # <<"0">>
    [] OTHER -> FALSE

\* String.prototype.toLowerCase on the letters of the alphabet
LowerChar(c) ==
  CASE c = "N" -> "n" [] c = "E" -> "e" [] c = "W" -> "w" [] c = "H" -> "h" [] OTHER -> c
ToLowerCase(s) == [i \in 1..Len(s) |-> LowerChar(s[i])]

\* getInlineFields: fields[name] after the scan of the lines with the pattern
\* ^([A-Za-z_-]+)::\s*(.*)$ (no blank before "::"), the last matching line wins
InlineField(body, name) ==
  LET S == {i \in 1..Len(body) : body[i].name = name /\ body[i].sp = 0}
  IN IF S = {} THEN JsUndef
     ELSE JsStr(Trim(body[CHOOSE i \in S : \A j \in S : j <= i].raw))

\* DictionaryService.getFieldValue: the first value that is neither undefined nor
\* null, as a string; "" when there is none
RECURSIVE getFieldValue(_)
getFieldValue(values) ==
  IF values = <<>> THEN <<>>
  ELSE IF Defined(Head(values)) THEN Head(values).v
  ELSE getFieldValue(Tail(values))

\* [...].find(v => v !== undefined && v !== null && String(v).trim() !== "")
RECURSIVE FindCandidate(_)
FindCandidate(values) ==
  IF values = <<>> THEN JsUndef
  ELSE IF Defined(Head(values)) /\ Trim(Head(values).v) # <<>> THEN Head(values)
  ELSE FindCandidate(Tail(values))

NewRevision == <<"n", "e", "w">>

\* A file of the vault as parseFileToEntry meets it: cache (the metadata cache has
\* the file), fmOk (its front matter was parsed), readable (cachedRead succeeds)
File(basename, cache, fmOk, readable, body, frontmatter) ==
  [basename |-> basename, cache |-> cache, fmOk |-> fmOk, readable |-> readable,
   body |-> body, fm |-> frontmatter]

\* Front matter: the keys read by parseFileToEntry
Frontmatter(source, type, context, Revision, revision) ==
  [source |-> source, type |-> type, context |-> context,
   Revision |-> Revision, revision |-> revision]

\* Value || "" for the fields copied without getFieldValue
OrEmpty(x) == IF TruthyValue(x) THEN x.v ELSE <<>>

\* DictionaryService.parseFileToEntry; null is [null |-> TRUE]; logged: the file
\* made console.error / console.warn run
parseFileToEntry(file) ==
  IF ~file.cache
  THEN [null |-> TRUE, logged |-> FALSE, basename |-> file.basename]
  ELSE LET fmv == IF file.fmOk THEN file.fm
                  ELSE Frontmatter(JsUndef, JsUndef, JsUndef, JsUndef, JsUndef)
           body == IF file.readable THEN file.body ELSE <<>>
           revisionCandidate == FindCandidate(<< InlineField(body, "Revision"),
                                                 InlineField(body, "revision"),
                                                 fmv.Revision, fmv.revision >>)
           \* revisionCandidate ? (... === "new" ? "new" : ...) : "new"
           revision == IF TruthyValue(revisionCandidate)
                       THEN (IF ToLowerCase(Trim(revisionCandidate.v)) = NewRevision
                             THEN NewRevision ELSE Trim(revisionCandidate.v))
                       ELSE NewRevision
       IN [null |-> FALSE, logged |-> ~file.readable, basename |-> file.basename,
           targetWord |-> ToLowerCase(file.basename),
           sourceWord |-> ToLowerCase(getFieldValue(<<fmv.source, InlineField(body, "source")>>)),
           type |-> getFieldValue(<<InlineField(body, "type"), InlineField(body, "Type"), fmv.type>>),
           context |-> getFieldValue(<<InlineField(body, "context"), InlineField(body, "Context"),
                                       fmv.context>>),
           revision |-> revision,
           rating |-> OrEmpty(InlineField(body, "Rating")),
           examples |-> OrEmpty(InlineField(body, "Examples"))]

\* Bound of the scan
MaxFiles == 3        \* files in the dictionary folder

\* The dictionary folders a scan may meet.  Either up to MaxFiles files, each a
\* good one, one without metadata, one whose front matter could not be parsed or
\* one whose content cannot be read; or one good note that holds a revision in
\* some of the four places a revision may be written in
ScanInputs ==
  LET body == << Line("Type", 0, <<" ", "n">>) >>
      fmv == Frontmatter(JsStr(<<"h">>), JsUndef, JsStr(<<"c">>), JsUndef, JsUndef)
      names == <<"x", "y", "z", "u">>
      filesAt(i) == { File(<<names[i]>>, TRUE, TRUE, TRUE, body, fmv),
                      File(<<names[i]>>, FALSE, TRUE, TRUE, body, fmv),
                      File(<<names[i]>>, TRUE, FALSE, TRUE, body, fmv),
                      File(<<names[i]>>, TRUE, TRUE, FALSE, body, fmv) }
      upper == { <<>>, <<Line("Revision", 0, <<>>)>>, <<Line("Revision", 0, <<" ", " ">>)>>,
                 <<Line("Revision", 0, <<" ", "2", " ">>)>>,
                 <<Line("Revision", 0, <<" ", "N", "e", "W">>)>>,
                 <<Line("Revision", 0, <<" ", "0">>)>> }
      lower == { <<>>, <<Line("revision", 0, <<" ", "1">>)>> }
      fmUpper == {JsUndef, JsNull, JsNum(<<"0">>), JsNum(<<"1">>),
                  JsStr(<<" ", "N", "E", "W", " ">>)}
      fmLower == {JsUndef, JsStr(<<"2">>), JsStr(<<>>)}
  IN UNION { {f \in [1..n -> UNION {filesAt(i) : i \in 1..n}] :
                \A i \in 1..n : f[i] \in filesAt(i)} : n \in 1..MaxFiles }
     \cup
     { << File(<<"x">>, TRUE, TRUE, TRUE, a \o b,
               Frontmatter(JsStr(<<"h">>), JsUndef, JsUndef, c, d)) >> :
         a \in upper, b \in lower, c \in fmUpper, d \in fmLower }

\* getDictionary(): one turn of the loop over the files (await parseFileToEntry)
ScanFile ==
  /\ result # <<>> /\ result.outcome = "scanning" /\ result.next <= Len(arg)
  /\ LET entry == parseFileToEntry(arg[result.next])
     IN result' = [result EXCEPT !.next = @ + 1,
                                 !.entries = IF entry.null THEN @ ELSE Append(@, entry),
                                 !.logged = IF entry.logged THEN @ \cup {result.next} ELSE @]
  /\ UNCHANGED <<arg, termVars, dictVars, ask>>

\* getDictionary(): after the loop the entries (files are met in the order of their
\* names) are sorted, published and returned
ScanReturn ==
  /\ result # <<>> /\ result.outcome = "scanning" /\ result.next > Len(arg)
  /\ result' = [result EXCEPT !.outcome = "returned"]
  /\ UNCHANGED <<arg, termVars, dictVars, ask>>

-----------------------------------------------------------------------------
(* TermService.createTermFile followed by DictionaryService.getDictionary *)

\* file.basename of a path of the dictionary folder
Basename(p) == IF p = "a.md" THEN <<"a">> ELSE <<"b">>

\* cache.frontmatter[sourceLanguage]: the YAML value of the key (a plain scalar
\* is read without its surrounding blanks, an empty one is null)
YamlValue(f) ==
  CASE f.k = "str" /\ Trim(f.v) # <<>> -> JsStr(Trim(f.v))
    [] f.k = "other" -> JsNum(<<"1">>)
    [] OTHER -> JsNull

\* createOrUpdateTermPage(term) for a term that has no note (the create path): the
\* greeting ("#expression", "#social/greetings", "hola"), or a term with padded
\* and upper-case values
CreateTerm(t) ==
  /\ MayCall(t)
  /\ \E p \in Paths,
        term \in { Term({"type", "context", "sourceTerm"}, <<"#", "expression">>,
                        <<"#", "social", "/", "greetings">>, <<>>, <<>>, <<"h", "o", "l", "a">>),
                   Term(TermKeys, <<" ", "n", " ">>, <<>>, <<"r">>, <<" ", "f", " ">>, <<"H">>) } :
       /\ ~exists[p]
       /\ op' = [op EXCEPT ![t] = [IdleOp EXCEPT !.kind = "create", !.pc = "create",
                                                !.path = p, !.term = term]]
  /\ UNCHANGED <<exists, content, fm, fileLocks, tickets, deleted, dictVars, ask, arg, result>>

\* getDictionary() on a service with no cached collection, once a call has
\* returned: every note of the folder is parsed, the entries are returned
GetDictionaryAfter ==
  /\ result = <<>>
  /\ \E t \in Tasks : op[t].pc = "done"
  /\ LET files == SelectSeq(<<"a.md", "b.md">>, LAMBDA p : exists[p])
         entryOf(p) ==
           parseFileToEntry(
             File(Basename(p), TRUE, TRUE, TRUE, content[p],
                  Frontmatter(YamlValue(fm[p]), JsUndef, JsUndef, JsUndef, JsUndef)))
         parsed == [i \in 1..Len(files) |-> entryOf(files[i])]
     IN result' = [entries |-> SelectSeq(parsed, LAMBDA e : ~e.null), outcome |-> "returned"]
  /\ UNCHANGED <<arg, termVars, dictVars, ask>>

-----------------------------------------------------------------------------
(* FilterService: applyFilters, getUniqueValues, generateTagArray *)

\* String.prototype.includes, startsWith, split
Includes(s, sub) == \E i \in 0..(Len(s) - Len(sub)) : SubSeq(s, i + 1, i + Len(sub)) = sub
StartsWith(s, sub) == Len(sub) <= Len(s) /\ SubSeq(s, 1, Len(sub)) = sub

RECURSIVE Split(_, _)
Split(s, sep) ==
  LET S == {i \in 1..Len(s) : s[i] = sep}
  IN IF S = {} THEN <<s>>
     ELSE LET i == CHOOSE i \in S : \A j \in S : i <= j
          IN <<SubSeq(s, 1, i - 1)>> \o Split(SubSeq(s, i + 1, Len(s)), sep)

All == <<"a", "l", "l">>

\* filters.x && filters.x !== "all"
Active(filterValue) == TruthyValue(filterValue) /\ filterValue.v # All

\* Bug: the comparison is case-sensitive
includesCaseSensitive(value, filterValue) == Includes(value, filterValue)

\* e.x.toLowerCase().includes(filters.x.toLowerCase())
includes(value, filterValue) == Includes(ToLowerCase(value), ToLowerCase(filterValue))

\* An entry as the filters see it; Group and Irregular exist on verb entries only
Entry(targetWord, sourceWord, type, context, revision, rating, Group, Irregular) ==
  [targetWord |-> targetWord, sourceWord |-> sourceWord, type |-> type, context |-> context,
   revision |-> revision, rating |-> rating, Group |-> Group, Irregular |-> Irregular]

\* Bug: the "i1" sentinel is not honoured
irregularMatchesExact(e, filters) == e.Irregular = filters.irregular

\* The test of the irregular filter:
\* irregular === filter || (filter === "i1" && irregular.startsWith("i"))
irregularMatches(e, filters) ==
  e.Irregular = filters.irregular
    \/ (filters.irregular.v = <<"i", "1">> /\ Defined(e.Irregular)
          /\ StartsWith(e.Irregular.v, <<"i">>))

\* FilterService.applyFilters: out is the array returned ("TypeError" when
\* startsWith is called on an entry without Irregular), entries is the caller's
\* array after the call
applyFilters(entries, filters) ==
  LET r0 == entries
      r1 == IF Active(filters.targetWord)
            THEN SelectSeq(r0, LAMBDA e : includes(e.targetWord, filters.targetWord.v)) ELSE r0
      r2 == IF Active(filters.sourceWord)
            THEN SelectSeq(r1, LAMBDA e : includes(e.sourceWord, filters.sourceWord.v)) ELSE r1
      r3 == IF Active(filters.type)
            THEN SelectSeq(r2, LAMBDA e : includes(e.type, filters.type.v)) ELSE r2
      r4 == IF Active(filters.context)
            THEN SelectSeq(r3, LAMBDA e : includes(e.context, filters.context.v)) ELSE r3
      r5 == IF Active(filters.revision)
            THEN SelectSeq(r4, LAMBDA e : e.revision = filters.revision.v) ELSE r4
      r6 == IF Active(filters.rating)
            THEN SelectSeq(r5, LAMBDA e : e.rating = filters.rating.v) ELSE r5
      r7 == IF Active(filters.group)
            THEN SelectSeq(r6, LAMBDA e : e.Group = filters.group) ELSE r6
      throws == /\ Active(filters.irregular) /\ filters.irregular.v = <<"i", "1">>
                /\ \E k \in 1..Len(r7) : ~Defined(r7[k].Irregular)
      r8 == IF Active(filters.irregular)
            THEN SelectSeq(r7, LAMBDA e : irregularMatches(e, filters)) ELSE r7
  IN IF throws THEN [outcome |-> "TypeError", out |-> <<>>, entries |-> entries]
     ELSE [outcome |-> "returned", out |-> r8, entries |-> entries]

\* FilterService.generateTagArray: parts.map((part, index) => accumulated += ...),
\* the i-th element is the first i parts joined by "/"
generateTagArray(compoundTag) ==
  LET parts == Split(compoundTag, "/")
      RECURSIVE accumulated(_)
      accumulated(index) ==
        IF index = 0 THEN parts[1] ELSE accumulated(index - 1) \o <<"/">> \o parts[index + 1]
  IN [i \in 1..Len(parts) |-> accumulated(i - 1)]

Range(q) == {q[i] : i \in 1..Len(q)}

\* getUniqueValues: what the value of one entry adds to the set
ValuesOf(value) ==
  LET tokenValues(v) ==
        LET trimmed == Trim(v)
        IN IF trimmed = <<>> THEN {}
           ELSE IF StartsWith(trimmed, <<"#">>) THEN Range(generateTagArray(trimmed))
           ELSE {trimmed}
  IN IF ~Defined(value) THEN {}
     ELSE LET valueStr == value.v
          IN IF Includes(valueStr, <<",">>)
             THEN UNION {tokenValues(v) : v \in Range(Split(valueStr, ","))}
             ELSE IF Trim(valueStr) # <<>>
             THEN (IF StartsWith(valueStr, <<"#">>) THEN Range(generateTagArray(Trim(valueStr)))
                   ELSE {Trim(valueStr)})
             ELSE {}

\* a.localeCompare(b, locale) < 0 on the characters of the model: blank,
\* punctuation, digits, letters
RECURSIVE Before(_, _)
Before(a, b) ==
  LET collation == <<" ", ",", "/", "#", "1", "2", "a", "c", "e", "h", "i", "l", "n", "r", "w">>
      rank(c) == CHOOSE i \in 1..Len(collation) : collation[i] = c
  IN IF b = <<>> THEN FALSE
     ELSE IF a = <<>> THEN TRUE
     ELSE IF Head(a) = Head(b) THEN Before(Tail(a), Tail(b))
     ELSE rank(Head(a)) < rank(Head(b))

\* Array.from(values).sort(...)
RECURSIVE Sorted(_)
Sorted(values) ==
  IF values = {} THEN <<>>
  ELSE LET first == CHOOSE x \in values : \A y \in values \ {x} : Before(x, y)
       IN <<first>> \o Sorted(values \ {first})

\* entry[property] as a JavaScript value
FieldValue(e, property) ==
  IF property \in {"Group", "Irregular"} THEN e[property] ELSE JsStr(e[property])

\* FilterService.getUniqueValues
getUniqueValues(entries, property) ==
  <<All>> \o Sorted(UNION {ValuesOf(FieldValue(entries[k], property)) : k \in 1..Len(entries)})

\* Bug: a selected value that the narrowed entries no longer offer is left out
facetOptionsNoSelected(entries, filters, property) ==
  getUniqueValues(applyFilters(entries, [filters EXCEPT ![property] = JsStr(All)]).out, property)

\* typeOptions / contextOptions / revisionOptions of the dictionary table: the
\* values of the entries that pass the filters with the field's own filter set
\* to "all", and the selected value when these do not offer it
facetOptions(entries, filters, property) ==
  LET facetEntries == applyFilters(entries, [filters EXCEPT ![property] = JsStr(All)]).out
      opts == getUniqueValues(facetEntries, property)
      selected == filters[property]
  IN IF TruthyValue(selected) /\ selected.v # All /\ selected.v \notin Range(opts)
     THEN <<All, selected.v>> \o SelectSeq(opts, LAMBDA o : o # All)
     ELSE opts

\* Bound of the filter inputs
MaxEntries == 2      \* entries handed to applyFilters / getUniqueValues

\* Entries of the dictionary view (no verb fields) and of the verbs view
ViewEntries ==
  { Entry(<<"n">>, <<"h">>, <<"#", "n", "/", "e", "/", "w">>, <<"#", "w">>, <<"n", "e", "w">>,
          <<"r">>, JsUndef, JsUndef),
    Entry(<<"n", "e">>, <<"e">>, <<"#", "n", "/", "e", ",", " ", "w">>, <<>>, <<"1">>,
          <<>>, JsUndef, JsUndef),
    Entry(<<"w">>, <<"h", "n">>, <<" ", "#", "n", "/", "h">>, <<"w", ",", ",", "h">>, <<"1">>,
          <<"r">>, JsUndef, JsUndef),
    Entry(<<"e">>, <<"h">>, <<"#", "n", "/", "i">>, <<>>, <<"2">>, <<>>,
          JsStr(<<"1">>), JsStr(<<>>)),
    Entry(<<"h">>, <<"w">>, <<"#", "n", "/", "e">>, <<"#", "w", "/", "e">>, <<"n", "e", "w">>, <<"r">>,
          JsStr(<<"i">>), JsStr(<<"i">>)) }

\* The entries and the filter state of a view; the verb filters are set by the
\* verbs view only, whose entries all have the verb fields
FilterInputs ==
  { x \in { [entries |-> es,
             filters |-> [targetWord |-> tw, sourceWord |-> sw, type |-> ty, context |-> cx,
                          revision |-> rv, rating |-> ra, group |-> gr, irregular |-> ir]] :
             es \in UNION {[1..n -> ViewEntries] : n \in 0..MaxEntries},
             tw \in {JsUndef, JsStr(<<"n">>)}, sw \in {JsUndef, JsStr(<<"H">>)},
             ty \in {JsUndef, JsStr(All), JsStr(<<>>), JsStr(<<"N", "/", "e">>)},
             cx \in {JsUndef, JsStr(<<"w">>)},
             rv \in {JsUndef, JsStr(<<"1">>), JsStr(<<"N", "E", "W">>)},
             ra \in {JsUndef, JsStr(<<"r">>)},
             gr \in {JsUndef, JsStr(<<"i">>), JsStr(<<"i", "1">>)},
             ir \in {JsUndef, JsStr(<<"i", "1">>), JsStr(<<"i">>)} } :
      (Defined(x.filters.group) \/ Defined(x.filters.irregular))
         => \A k \in 1..Len(x.entries) : Defined(x.entries[k].Group) }

\* The view calls applyFilters(entries, filters)
ApplyFilters ==
  /\ result = <<>>
  /\ result' = [fn |-> "applyFilters"] @@ applyFilters(arg.entries, arg.filters)
  /\ UNCHANGED <<arg, termVars, dictVars, ask>>

\* The view calls getUniqueValues(entries, property)
GetUniqueValues ==
  /\ result = <<>>
  /\ \E property \in {"type", "context", "revision", "Group"} :
       result' = [fn |-> "getUniqueValues", property |-> property,
                  out |-> getUniqueValues(arg.entries, property)]
  /\ UNCHANGED <<arg, termVars, dictVars, ask>>

\* The dictionary table computes the options of one of its dropdowns
FacetOptions ==
  /\ result = <<>>
  /\ \E property \in {"type", "context", "revision"} :
       result' = [fn |-> "facetOptions", property |-> property,
                  out |-> facetOptions(arg.entries, arg.filters, property)]
  /\ UNCHANGED <<arg, termVars, dictVars, ask>>

-----------------------------------------------------------------------------
(* DictionaryService.enrichVerbEntry: Group and Irregular from the type *)

\* The tags of the verbs, character by character
Verbe == <<"#", "v", "e", "r", "b", "e">>
Regulier == <<"/", "r", "é", "g", "u", "l", "i", "e", "r">>
Irregulier == <<"/", "i", "r", "r", "é", "g", "u", "l", "i", "e", "r">>

\* Bug: the rule for #verbe/irrégulier/3 is tried before its sub-groups
determineVerbGroupGeneralFirst(type) ==
  IF Includes(type, Verbe \o Regulier \o <<"/", "1">>) THEN <<"1">>
  ELSE IF Includes(type, Verbe \o Regulier \o <<"/", "2">>) THEN <<"2">>
  ELSE IF Includes(type, Verbe \o Irregulier \o <<"/", "3">>) THEN <<"3">>
  ELSE IF Includes(type, Verbe \o Irregulier \o <<"/", "3", "/", "i", "r">>) THEN <<"3", "i", "r">>
  ELSE IF Includes(type, Verbe \o Irregulier \o <<"/", "3", "/", "o", "i", "r">>) THEN <<"3", "o", "i", "r">>
  ELSE IF Includes(type, Verbe \o Irregulier \o <<"/", "3", "/", "r", "e">>) THEN <<"3", "r", "e">>
  ELSE IF Includes(type, Verbe \o Irregulier) THEN <<"i">>
  ELSE <<>>

\* DictionaryService.determineVerbGroup
determineVerbGroup(type) ==
  IF Includes(type, Verbe \o Regulier \o <<"/", "1">>) THEN <<"1">>
  ELSE IF Includes(type, Verbe \o Regulier \o <<"/", "2">>) THEN <<"2">>
  ELSE IF Includes(type, Verbe \o Irregulier \o <<"/", "3", "/", "i", "r">>) THEN <<"3", "i", "r">>
  ELSE IF Includes(type, Verbe \o Irregulier \o <<"/", "3", "/", "o", "i", "r">>) THEN <<"3", "o", "i", "r">>
  ELSE IF Includes(type, Verbe \o Irregulier \o <<"/", "3", "/", "r", "e">>) THEN <<"3", "r", "e">>
  ELSE IF Includes(type, Verbe \o Irregulier \o <<"/", "3">>) THEN <<"3">>
  ELSE IF Includes(type, Verbe \o Irregulier) THEN <<"i">>
  ELSE <<>>

\* DictionaryService.determineIrregular; type.match(/#verbe\/irrégulier(?:\/\d+)?/)
\* finds the tag at some position, its optional group never prevents a match
determineIrregular(type) ==
  LET match == \E i \in 0..Len(type) :
                 StartsWith(SubSeq(type, i + 1, Len(type)), Verbe \o Irregulier)
  IN IF Includes(type, Verbe \o Irregulier)
     THEN (IF match THEN <<"i">> ELSE <<>>)
     ELSE <<>>

\* entry.type: empty, one tag, or two tags joined by ", "; the tags are the verb
\* tags, longer and shorter ones, and other tags
VerbTypes ==
  LET tags == { Verbe \o Regulier \o <<"/", "1">>, Verbe \o Regulier \o <<"/", "2">>,
                Verbe \o Irregulier \o <<"/", "3", "/", "i", "r">>,
                Verbe \o Irregulier \o <<"/", "3", "/", "o", "i", "r">>,
                Verbe \o Irregulier \o <<"/", "3", "/", "r", "e">>,
                Verbe \o Irregulier \o <<"/", "3">>, Verbe \o Irregulier,
                Verbe \o Irregulier \o <<"/", "1">>, Verbe \o Regulier, Verbe,
                <<"#", "V", "e", "r", "b", "e">> \o Irregulier, <<"#", "n", "o", "m">> }
  IN {<<>>} \cup tags \cup {a \o <<",", " ">> \o b : a \in tags, b \in tags}

\* DictionaryService.enrichVerbEntry
enrichVerbEntry ==
  /\ result = <<>>
  /\ result' = [Group |-> determineVerbGroup(arg), Irregular |-> determineIrregular(arg)]
  /\ UNCHANGED <<arg, termVars, dictVars, ask>>

-----------------------------------------------------------------------------
(* OpenAIService.askForTerm and AskAIModal.handleAsk: the Ask-AI flow *)

\* What askForTerm returns: null, an error message, a parsed JSON object (its
\* fields as a term), or another parsed JSON value (a number, true)
RespNull == [k |-> "null", f |-> Term({}, <<>>, <<>>, <<>>, <<>>, <<>>)]
RespString == [k |-> "string", f |-> Term({}, <<>>, <<>>, <<>>, <<>>, <<>>)]
RespObject(term) == [k |-> "object", f |-> term]

\* What askAssistant returns for the term: null (no answer, failed run, fetch
\* error), the rate-limit signal, or the text of the assistant's message
NoAnswer == [k |-> "null", json |-> FALSE, v |-> RespNull]
Text(json, v) == [k |-> "text", json |-> json, v |-> v]

AiAnswers ==
  { NoAnswer,
    [k |-> "rate", json |-> FALSE, v |-> RespNull],    \* the rate-limit signal
    Text(FALSE, RespNull),           \* prose, not JSON
    Text(TRUE, RespNull),            \* the JSON text null
    Text(TRUE, [k |-> "other", f |-> Term({}, <<>>, <<>>, <<>>, <<>>, <<>>)]),   \* a JSON number
    Text(TRUE, RespString),          \* a JSON string
    Text(TRUE, RespObject(Term({}, <<>>, <<>>, <<>>, <<>>, <<>>))),   \* {} or an array
    Text(TRUE, RespObject(Term({"type"}, <<"n">>, <<>>, <<>>, <<>>, <<>>))),
    Text(TRUE, RespObject(Term({"type", "context", "examples", "sourceTerm"},
                               <<"n">>, <<"c">>, <<>>, <<"f">>, <<"h">>))) }

\* OpenAIService.parseJsonResponse
parseJsonResponse(text) == IF text.json THEN text.v ELSE RespNull

IdleAsk ==
  [pc |-> "idle",
   asked |-> 0,          \* history: times askAssistant was given the term
   threads |-> 0,        \* history: threads created after a rate-limit signal
   first |-> NoAnswer,   \* history: the answer to the first ask
   retry |-> NoAnswer,   \* history: the answer to the second ask
   response |-> RespNull,
   notice |-> "none",
   before |-> <<>>]      \* history: the note when the flow started

\* The writes of a call applied one after the other (no other call in flight)
RECURSIVE ApplyWrites(_, _)
ApplyWrites(note, writes) ==
  IF writes = <<>> THEN note
  ELSE LET w == Head(writes)
           normalized == Trim(w.value)
           shouldSkipClear == ~w.allowClear /\ Len(normalized) = 0
       IN ApplyWrites(
            IF w.kind = "inline"
            THEN [note EXCEPT !.body = RewriteInline(@, w.field, normalized, shouldSkipClear)]
            ELSE [note EXCEPT !.fm = RewriteFrontmatter(@, normalized, shouldSkipClear)],
            Tail(writes))

AskPath == "a.md"
NoteOf(ex, co, f) == [exists |-> ex[AskPath], body |-> co[AskPath], fm |-> f[AskPath]]

\* The flow returns r from askForTerm to handleAsk
Answered(a, r) == [a EXCEPT !.pc = "answered", !.response = r]

\* AskAIModal.handleAsk up to the await of askForTerm: a blank term or a missing
\* API key ends it with a notice, the modal stays open
handleAsk ==
  /\ ask.pc = "idle"
  /\ \E ok \in BOOLEAN :
       ask' = IF ok THEN [ask EXCEPT !.pc = "setup", !.notice = "asking",
                                     !.before = NoteOf(exists, content, fm)]
              ELSE [ask EXCEPT !.notice = "input"]
  /\ UNCHANGED <<termVars, dictVars, arg, result>>

\* askForTerm up to the first ask: the assistant and the thread are created when
\* needed; a failed creation returns null, an exception (save of the settings)
\* is caught and its message, or null, is returned
AskSetup ==
  /\ ask.pc = "setup"
  /\ \E r \in {"ok", "null", "message"} :
       ask' = CASE r = "ok" -> [ask EXCEPT !.pc = "ask1"]
                [] r = "null" -> Answered(ask, RespNull)
                [] OTHER -> Answered(ask, RespString)
  /\ UNCHANGED <<termVars, dictVars, arg, result>>

\* askForTerm: the first askAssistant(term) returns
FirstAsk ==
  /\ ask.pc = "ask1"
  /\ \E a \in AiAnswers :
       LET asked == [ask EXCEPT !.asked = @ + 1, !.first = a]
       IN ask' = CASE a.k = "null" -> Answered(asked, RespNull)
                   [] a.k = "rate" -> [asked EXCEPT !.pc = "retryThread"]
                   [] OTHER -> Answered(asked, parseJsonResponse(a))
  /\ UNCHANGED <<termVars, dictVars, arg, result>>

\* askForTerm after the rate-limit signal: createThread returns an id or null
RetryThread ==
  /\ ask.pc = "retryThread"
  /\ \E created \in BOOLEAN :
       ask' = IF created THEN [ask EXCEPT !.pc = "retrySave", !.threads = @ + 1]
              ELSE Answered(ask, RespNull)
  /\ UNCHANGED <<termVars, dictVars, arg, result>>

\* askForTerm: saveAssistantConfig, then the initial question and the additional
\* instructions are sent to the new thread (askAssistant catches its errors)
RetrySave ==
  /\ ask.pc = "retrySave"
  /\ \E r \in {"ok", "null", "message"} :
       ask' = CASE r = "ok" -> [ask EXCEPT !.pc = "ask2"]
                [] r = "null" -> Answered(ask, RespNull)
                [] OTHER -> Answered(ask, RespString)
  /\ UNCHANGED <<termVars, dictVars, arg, result>>

\* Bug: a second rate-limit signal starts another retry
RetryAskUnbounded ==
  /\ ask.pc = "ask2"
  /\ \E a \in AiAnswers :
       LET asked == [ask EXCEPT !.asked = @ + 1, !.retry = a]
       IN ask' = CASE a.k = "null" -> Answered(asked, RespNull)
                   [] a.k = "rate" -> [asked EXCEPT !.pc = "retryThread"]
                   [] OTHER -> Answered(asked, parseJsonResponse(a))
  /\ UNCHANGED <<termVars, dictVars, arg, result>>

\* askForTerm: the second askAssistant(term) returns
RetryAsk ==
  /\ ask.pc = "ask2"
  /\ \E a \in AiAnswers :
       LET asked == [ask EXCEPT !.asked = @ + 1, !.retry = a]
       IN ask' = IF a.k \in {"null", "rate"} THEN Answered(asked, RespNull)
                 ELSE Answered(asked, parseJsonResponse(a))
  /\ UNCHANGED <<termVars, dictVars, arg, result>>

\* handleAsk after askForTerm: a string is shown, an object goes to
\* createOrUpdateTermPage (update path when the note exists, else createTermFile,
\* whose vault.create may fail), anything else is a failure notice
ApplyResponse ==
  /\ ask.pc = "answered"
  /\ LET r == ask.response
         note == NoteOf(exists, content, fm)
     IN CASE r.k = "string" ->
               /\ ask' = [ask EXCEPT !.pc = "closed", !.notice = "message"]
               /\ UNCHANGED <<exists, content, fm>>
          [] r.k = "object" /\ exists[AskPath] ->
               LET writes == updateTermPageProperties(content[AskPath], r.f)
                   after == ApplyWrites(note, writes)
               IN /\ content' = [content EXCEPT ![AskPath] = after.body]
                  /\ fm' = [fm EXCEPT ![AskPath] = after.fm]
                  /\ ask' = [ask EXCEPT !.pc = "closed",
                                        !.notice = IF writes # <<>> THEN "updated" ELSE "notUpdated"]
                  /\ UNCHANGED exists
          [] r.k = "object" /\ ~exists[AskPath] ->
               \E created \in BOOLEAN :
                 IF created
                 THEN LET fresh == [exists |-> TRUE,
                                    body |-> injectTermValues(getDefaultTermContent, r.f),
                                    fm |-> IF Truthy(r.f, "sourceTerm")
                                           THEN FmStr(r.f.sourceTerm) ELSE FmNone]
                          after == ApplyWrites(fresh, createTermFileWrites(r.f))
                      IN /\ exists' = [exists EXCEPT ![AskPath] = TRUE]
                         /\ content' = [content EXCEPT ![AskPath] = after.body]
                         /\ fm' = [fm EXCEPT ![AskPath] = after.fm]
                         /\ ask' = [ask EXCEPT !.pc = "closed", !.notice = "created"]
                 ELSE /\ ask' = [ask EXCEPT !.pc = "closed", !.notice = "none"]
                      /\ UNCHANGED <<exists, content, fm>>
          [] OTHER ->
               /\ ask' = [ask EXCEPT !.pc = "failed", !.notice = "failed"]
               /\ UNCHANGED <<exists, content, fm>>
  /\ UNCHANGED <<fileLocks, tickets, op, deleted, dictVars, arg, result>>

\* The modal is still open after a failure: the user asks again
AskAgain ==
  /\ ask.pc = "failed"
  /\ ask' = IdleAsk
  /\ UNCHANGED <<termVars, dictVars, arg, result>>

-----------------------------------------------------------------------------
(* usePagination: the page of the table *)

\* Bounds of the pagination inputs
MaxPageSize == 4     \* entries on a page
MaxCount == 12       \* filtered entries (outputCount)

\* nextPage, offered while hasNext (pageStart + pageSize < outputCount)
nextPage ==
  /\ result.pageStart + result.pageSize < result.outputCount
  /\ LET a == result.pageStart + result.pageSize
         b == result.outputCount - result.pageSize
     IN result' = [result EXCEPT !.pageStart = IF a <= b THEN a ELSE b]   \* Math.min
  /\ UNCHANGED <<arg, termVars, dictVars, ask>>

\* prevPage, offered while hasPrev (pageStart > 0)
prevPage ==
  /\ result.pageStart > 0
  /\ LET a == result.pageStart - result.pageSize
     IN result' = [result EXCEPT !.pageStart = IF a >= 0 THEN a ELSE 0]   \* Math.max
  /\ UNCHANGED <<arg, termVars, dictVars, ask>>

-----------------------------------------------------------------------------
(* learn-dictionary code block: the filters are written back into the block *)

\* Bound of the model
MaxFilterChanges == 4     \* filter changes the user makes

\* JSON.stringify(normalizedNext) of the filter states the user moves between
FilterSnapshots == {"a", "b", "c"}

\* persistFilters(next), called by the table when its filters have changed
persistFilters ==
  /\ result.changes < MaxFilterChanges
  /\ \E snapshot \in FilterSnapshots \ {result.ui} :
       result' = IF snapshot = result.lastWritten \/ snapshot = result.lastScheduled
                 THEN [result EXCEPT !.ui = snapshot, !.changes = @ + 1]
                 ELSE [result EXCEPT !.ui = snapshot, !.changes = @ + 1,
                                     !.lastScheduled = snapshot,
                                     !.persistTimer = snapshot]   \* clearTimeout, setTimeout
  /\ UNCHANGED <<arg, termVars, dictVars, ask>>

\* The timer fires: persistFiltersIntoCodeBlock is called with the filters of the
\* timer and awaits vault.read
PersistTimerFires ==
  /\ result.persistTimer # "null"
  /\ result' = [result EXCEPT !.persistTimer = "null", !.writing = Append(@, result.persistTimer)]
  /\ UNCHANGED <<arg, termVars, dictVars, ask>>

\* persistFiltersIntoCodeBlock returns: the block holds the filters (ok), or the
\* note or the block was not found
persistFiltersIntoCodeBlock ==
  /\ result.writing # <<>>
  /\ \E ok \in BOOLEAN :
       result' = IF ok
                 THEN [result EXCEPT !.writing = Tail(@), !.block = Head(result.writing),
                                     !.lastWritten = Head(result.writing)]
                 ELSE [result EXCEPT !.writing = Tail(@), !.lastScheduled = "null",
                                     !.missed = TRUE]
  /\ UNCHANGED <<arg, termVars, dictVars, ask>>

-----------------------------------------------------------------------------
(* OpenAIService: polling for the completion of a run *)

\* askQuestion: const maxAttempts = 60
maxAttempts == 60

\* The status of a run as the service reports it
RunStatuses == {"queued", "in_progress", "completed", "failed", "cancelled", "expired"}

\* The loop condition of the two functions; askAssistant keeps no count of its attempts
Polling(a) ==
  /\ a.status \in {"in_progress", "queued"}
  /\ a.fn = "askQuestion" => a.attempts < maxAttempts

\* One turn of the loop: sleep, GET the run, status = its status (attempts++);
\* a request that raises is caught and the function returns null
PollRun ==
  /\ ask.pc = "polling"
  /\ Polling(ask)
  /\ \/ \E st \in RunStatuses :
          ask' = [ask EXCEPT !.status = st,
                             !.attempts = IF ask.fn = "askQuestion" THEN @ + 1 ELSE @]
     \/ ask' = [ask EXCEPT !.pc = "returned", !.out = "null"]
  /\ UNCHANGED <<termVars, dictVars, arg, result>>

\* After the loop: null unless the run completed (askQuestion cancels a run that is
\* still going, askAssistant reports a failed run as null or as the rate-limit
\* signal), otherwise the text of the last message or null
AfterPolling ==
  /\ ask.pc = "polling"
  /\ ~Polling(ask)
  /\ \E o \in IF ask.status = "completed" THEN {"text", "null"}
              ELSE IF ask.status = "failed" /\ ask.fn = "askAssistant" THEN {"null", "rate"}
              ELSE {"null"} :
       ask' = [ask EXCEPT !.pc = "returned", !.out = o]
  /\ UNCHANGED <<termVars, dictVars, arg, result>>

Init == TermInit(NoteShapes, {TRUE}) /\ DictIdle /\ ask = <<>> /\ arg = <<>> /\ result = <<>>

Next ==
  \/ \E t \in Tasks : updateField(t)
  \/ \E t \in Tasks : CallUpdateTermFile(t)
  \/ \E t \in Tasks : createOrUpdateTermPage(t)
  \/ \E t \in Tasks : ReadContent(t)
  \/ \E t \in Tasks : CreateFile(t)
  \/ \E t \in Tasks : BodyRead(t)
  \/ \E t \in Tasks : BodyWrite(t)
  \/ DeleteFile

Spec == Init /\ [][Next]_vars

InitSeq == TermInit(NoteShapesSeq, {TRUE}) /\ DictIdle /\ ask = <<>> /\ arg = <<>> /\ result = <<>>

NextSeq ==
  \/ \E t \in Tasks : NoneInFlight /\ updateField(t)
  \/ \E t \in Tasks : NoneInFlight /\ CallUpdateTermFile(t)
  \/ \E t \in Tasks : NoneInFlight /\ createOrUpdateTermPage(t)
  \/ \E t \in Tasks : ReadContent(t)
  \/ \E t \in Tasks : CreateFile(t)
  \/ \E t \in Tasks : BodyRead(t)
  \/ \E t \in Tasks : BodyWrite(t)

SpecSeq == InitSeq /\ [][NextSeq]_vars

InitDict ==
  /\ TermInit(NoteShapes, {FALSE}) /\ ask = <<>> /\ arg = <<>> /\ result = <<>>
  /\ now = 2 * cacheTTL
  /\ storage = [i \in DOMAIN DictFiles |-> 0]
  /\ folderExists = TRUE
  /\ dictionaryCache = NoCache
  /\ cacheTimestamp = 0
  /\ verbsCache = NoCache
  /\ call = [c \in Callers |-> IdleCall]
  /\ calls = 0
  /\ gens = <<>>
  /\ invCount = 0

NextDict ==
  \/ \E c \in Callers : getDictionary(c)
  \/ \E c \in Callers : ReadFile(c)
  \/ \E c \in Callers : Return(c)
  \/ invalidateCache
  \/ ModifyNote
  \/ ToggleFolder
  \/ Tick

SpecDict == InitDict /\ [][NextDict]_vars

\* The views call getDictionary() and getVerbs()
NextGetVerbs ==
  \/ \E c \in Callers : getVerbs(c)
  \/ \E c \in Callers : getDictionary(c)
  \/ \E c \in Callers : ReadFile(c)
  \/ \E c \in Callers : Return(c)
  \/ invalidateCache
  \/ ModifyNote
  \/ ToggleFolder
  \/ Tick

SpecGetVerbs == InitDict /\ [][NextGetVerbs]_vars

\* The block is rendered: the table starts from the filters of the block
InitPersist ==
  /\ TermInit(NoteShapes, {FALSE}) /\ DictIdle /\ ask = <<>> /\ arg = <<>>
  /\ result = [ui |-> "a", block |-> "a", lastScheduled |-> "null", lastWritten |-> "null",
               persistTimer |-> "null",
               writing |-> <<>>,     \* calls of persistFiltersIntoCodeBlock in progress
               changes |-> 0,        \* history: filter changes so far
               missed |-> FALSE]     \* history: a write did not find the block

NextPersist ==
  \/ persistFilters
  \/ PersistTimerFires
  \/ persistFiltersIntoCodeBlock

SpecPersist == InitPersist /\ [][NextPersist]_vars

\* The table shows the first page of outputCount filtered entries
InitPagination ==
  /\ TermInit(NoteShapes, {FALSE}) /\ DictIdle /\ ask = <<>> /\ arg = <<>>
  /\ \E pageSize \in 1..MaxPageSize, outputCount \in 0..MaxCount :
       result = [pageStart |-> 0, pageSize |-> pageSize, outputCount |-> outputCount]

NextPagination ==
  \/ nextPage
  \/ prevPage

SpecPagination == InitPagination /\ [][NextPagination]_vars

\* The run was created: askAssistant starts from "in_progress", askQuestion from the
\* status the creation of the run reported
InitPoll ==
  /\ TermInit(NoteShapes, {FALSE}) /\ DictIdle /\ arg = <<>> /\ result = <<>>
  /\ \E fn \in {"askAssistant", "askQuestion"}, st \in RunStatuses :
       /\ fn = "askAssistant" => st = "in_progress"
       /\ ask = [fn |-> fn, pc |-> "polling", status |-> st, attempts |-> 0, out |-> "none"]

NextPoll ==
  \/ PollRun
  \/ AfterPolling

\* The timers fire and the requests complete: the function is never left suspended
FairSpecPoll == InitPoll /\ [][NextPoll]_vars /\ WF_vars(NextPoll)

\* The note of the term ("a.md") exists or not; the modal is open
InitAsk ==
  TermInit(NoteShapes, BOOLEAN) /\ ask = IdleAsk /\ DictIdle /\ arg = <<>> /\ result = <<>>

NextAsk ==
  \/ handleAsk
  \/ AskSetup
  \/ FirstAsk
  \/ RetryThread
  \/ RetrySave
  \/ RetryAsk
  \/ ApplyResponse
  \/ AskAgain

SpecAsk == InitAsk /\ [][NextAsk]_vars

InitScan ==
  /\ TermInit(NoteShapes, {FALSE}) /\ DictIdle /\ ask = <<>>
  /\ arg \in ScanInputs
  /\ result = [next |-> 1, entries |-> <<>>, logged |-> {}, outcome |-> "scanning"]

NextScan ==
  \/ ScanFile
  \/ ScanReturn

SpecScan == InitScan /\ [][NextScan]_vars

\* The vault is empty: the dictionary folder holds no note, no call is in flight
InitCreate ==
  TermInit(NoteShapes, {FALSE}) /\ DictIdle /\ ask = <<>> /\ arg = <<>> /\ result = <<>>

NextCreate ==
  \/ \E t \in Tasks : result = <<>> /\ CreateTerm(t)
  \/ \E t \in Tasks : result = <<>> /\ CreateFile(t)
  \/ \E t \in Tasks : result = <<>> /\ BodyRead(t)
  \/ \E t \in Tasks : result = <<>> /\ BodyWrite(t)
  \/ GetDictionaryAfter

SpecCreate == InitCreate /\ [][NextCreate]_vars

\* A view holds its entries and its filter state
InitFilter == TermInit(NoteShapes, {FALSE}) /\ DictIdle /\ ask = <<>> /\ arg \in FilterInputs /\ result = <<>>

NextFilter ==
  \/ ApplyFilters
  \/ GetUniqueValues
  \/ FacetOptions

SpecFilter == InitFilter /\ [][NextFilter]_vars

\* getVerbs() reaches an entry of some type
InitVerb == TermInit(NoteShapes, {FALSE}) /\ DictIdle /\ ask = <<>> /\ arg \in VerbTypes /\ result = <<>>

NextVerb == enrichVerbEntry

SpecVerb == InitVerb /\ [][NextVerb]_vars

-----------------------------------------------------------------------------
(* TermService: properties *)

\* The write w is not turned into a no-op by shouldSkipClear
Effective(w) == w.allowClear \/ Trim(w.value) # <<>>

\* The note holds the line "F:: v"
Holds(body, f, v) ==
  LET i == MatchIdx(body, f, TRUE)
  IN IF i = 0 THEN FALSE ELSE body[i] = Line(f, 0, <<" ">> \o v)

\* The step in which the write of task t lands
WriteStep(t) ==
  /\ op[t].pc = "locked"
  /\ tickets[op[t].ticket].st = "read"
  /\ tickets'[op[t].ticket].st = "done"

\* C1: for every path at most one mutation body is in progress: a body starts only
\* after every body requested earlier for the same path has finished
OneBodyPerPath ==
  \A j, k \in DOMAIN tickets :
    (j < k /\ tickets[j].path = tickets[k].path /\ tickets[k].st # "queued") => tickets[j].st \in {"done", "failed"}

\* A request of another task was chained onto a pending one and its body runs
\* after the first has finished
WitnessOneBodyPerPath ==
  \E j, k \in DOMAIN tickets :
    /\ tickets[k].prev = j /\ tickets[j].task # tickets[k].task
    /\ tickets[j].path = tickets[k].path
    /\ tickets[j].st = "done" /\ tickets[k].st = "read"

\* C2: two updateField calls on the same existing note, for different fields that
\* both have an inline line, both complete and both values are in the final content
BothUpdatesLand ==
  \A j, k \in DOMAIN tickets :
    LET p == tickets[j].path
        wj == tickets[j].w
        wk == tickets[k].w
    IN ( /\ j # k /\ tickets[k].path = p /\ wj.field # wk.field
         /\ op[tickets[j].task].kind = "updateField" /\ op[tickets[k].task].kind = "updateField"
         /\ op[tickets[j].task].pc = "done" /\ op[tickets[k].task].pc = "done"
         /\ deleted = 0 /\ exists[p]
         /\ \A m \in DOMAIN tickets : tickets[m].path = p => m \in {j, k}
         /\ Effective(wj) /\ Effective(wk)
         /\ MatchIdx(tickets[j].data, wj.field, TRUE) # 0
         /\ MatchIdx(tickets[k].data, wk.field, TRUE) # 0 )
       => /\ tickets[j].st = "done" /\ tickets[k].st = "done"
          /\ Holds(content[p], wj.field, Trim(wj.value))
          /\ Holds(content[p], wk.field, Trim(wk.value))

\* Two such calls were in flight together (the second chained onto the first) and
\* both values are in the note
WitnessBothUpdatesLand ==
  \E j, k \in DOMAIN tickets :
    /\ tickets[k].prev = j /\ tickets[j].w.field # tickets[k].w.field
    /\ op[tickets[j].task].kind = "updateField" /\ op[tickets[k].task].kind = "updateField"
    /\ op[tickets[j].task].pc = "done" /\ op[tickets[k].task].pc = "done"
    /\ deleted = 0 /\ Len(tickets) = 2
    /\ Holds(content[tickets[j].path], tickets[j].w.field, Trim(tickets[j].w.value))
    /\ Holds(content[tickets[k].path], tickets[k].w.field, Trim(tickets[k].w.value))
    /\ Trim(tickets[j].w.value) # <<>> /\ Trim(tickets[k].w.value) # <<>>

\* C3 (as claimed): a write of the update path never replaces a Type, Context or
\* Rating value that is non-blank in the note at the moment the write is applied
UpdateNeverClobbers ==
  [][\A t \in Tasks :
       (WriteStep(t) /\ op[t].kind = "update"
          /\ tickets[op[t].ticket].w.field \in {"Type", "Context", "Rating"})
       => LET p == op[t].path
              f == tickets[op[t].ticket].w.field
          IN getInlineFieldValue(content[p], f) # <<>>
               => getInlineFieldValue(content'[p], f) = getInlineFieldValue(content[p], f)]_vars

\* The inline writes of the finished bodies of path p, from ticket k on, applied to body
RECURSIVE Replay(_, _, _)
Replay(body, p, k) ==
  IF k > Len(tickets) THEN body
  ELSE LET w == tickets[k].w
       IN IF tickets[k].path = p /\ tickets[k].st = "done" /\ w.kind = "inline"
          THEN Replay(RewriteInline(body, w.field, Trim(w.value),
                                    ~w.allowClear /\ Trim(w.value) = <<>>), p, k + 1)
          ELSE Replay(body, p, k + 1)

\* C4: the mutations of one path execute in the order of their requests: the note
\* is what the finished writes give when applied one after the other in request
\* order, and of two writes of the same field the one requested later is final
RequestOrder ==
  /\ \A p \in Paths :
       \* the first ticket of the path whose body has read the note (0: none)
       LET S == {k \in DOMAIN tickets :
                   tickets[k].path = p /\ tickets[k].st \in {"read", "done"}}
           firstRead == IF S = {} THEN 0 ELSE CHOOSE k \in S : \A m \in S : k <= m
       IN (deleted = 0 /\ firstRead # 0)
            => content[p] = Replay(tickets[firstRead].data, p, 1)
  /\ \A j, k \in DOMAIN tickets :
       LET p == tickets[j].path
           w == tickets[k].w
       IN ( /\ j < k /\ tickets[k].path = p /\ tickets[k].st = "done"
            /\ w.kind = "inline" /\ tickets[j].w.kind = "inline" /\ tickets[j].w.field = w.field
            /\ deleted = 0 /\ Effective(w)
            /\ MatchIdx(content[p], w.field, TRUE) # 0
            /\ \A m \in DOMAIN tickets :
                 (m > k /\ tickets[m].path = p /\ tickets[m].w.field = w.field)
                   => tickets[m].st = "queued" )
          => tickets[j].st \in {"done", "failed"} /\ Holds(content[p], w.field, Trim(w.value))

\* Two tasks wrote different values to the same field of the same note, the second
\* request was chained onto the first, and the note holds the second value
WitnessRequestOrder ==
  \E j, k \in DOMAIN tickets :
    /\ tickets[k].prev = j /\ tickets[j].task # tickets[k].task
    /\ tickets[j].st = "done" /\ tickets[k].st = "done"
    /\ tickets[j].w.kind = "inline" /\ tickets[j].w.field = tickets[k].w.field
    /\ Effective(tickets[j].w) /\ Effective(tickets[k].w)
    /\ Trim(tickets[j].w.value) # Trim(tickets[k].w.value)
    /\ MatchIdx(tickets[j].data, tickets[j].w.field, TRUE) # 0
    /\ deleted = 0 /\ Len(tickets) = 2
    /\ Holds(content[tickets[k].path], tickets[k].w.field, Trim(tickets[k].w.value))

\* C5: a blank value without allowClear leaves a non-empty inline field or
\* front-matter value as it is; an empty value with allowClear empties it
AllowClearRule ==
  [][\A t \in Tasks :
       WriteStep(t) =>
         LET p == op[t].path
             w == tickets[op[t].ticket].w
             i == MatchIdx(content[p], w.field, TRUE)
             blank == Trim(w.value) = <<>>
         IN /\ (w.kind = "inline" /\ blank /\ ~w.allowClear /\ i # 0)
                 => (Trim(content[p][i].raw) # <<>> => content'[p] = content[p])
            /\ (w.kind = "inline" /\ blank /\ w.allowClear /\ i # 0)
                 => /\ content'[p][i].name = w.field
                    /\ Trim(content'[p][i].raw) = <<>>
                    /\ \A n \in DOMAIN content[p] : n # i => content'[p][n] = content[p][n]
            /\ (w.kind = "fm" /\ blank /\ ~w.allowClear)
                 => ((fm[p].k = "str" /\ Trim(fm[p].v) # <<>>) => fm'[p] = fm[p])
            /\ (w.kind = "fm" /\ blank /\ w.allowClear)
                 => fm'[p] = FmStr(<<>>)]_vars

\* A blank value without allowClear met a non-empty inline field and a non-empty
\* front-matter value, which the note still holds, and an empty value with
\* allowClear met a non-empty field, now empty
WitnessAllowClearRule ==
  \E j, k \in DOMAIN tickets :
    LET wj == tickets[j].w
        wk == tickets[k].w
        ij == MatchIdx(tickets[j].data, wj.field, TRUE)
        ik == MatchIdx(tickets[k].data, wk.field, TRUE)
    IN /\ tickets[j].st = "done" /\ tickets[k].st = "done"
       /\ wj.kind = "inline" /\ ~wj.allowClear /\ Trim(wj.value) = <<>>
       /\ ij # 0
       /\ wk.kind = "inline" /\ wk.allowClear /\ Trim(wk.value) = <<>>
       /\ ik # 0
       /\ IF ij = 0 \/ ik = 0 THEN FALSE
          ELSE /\ Trim(tickets[j].data[ij].raw) # <<>>
               /\ Trim(tickets[k].data[ik].raw) # <<>>
               /\ j < k
               /\ Holds(content[tickets[k].path], wk.field, <<>>)
               /\ \E m \in DOMAIN tickets :
                    /\ tickets[m].st = "done" /\ tickets[m].w.kind = "fm"
                    /\ ~tickets[m].w.allowClear /\ Trim(tickets[m].w.value) = <<>>
                    /\ tickets[m].fmData.k = "str" /\ Trim(tickets[m].fmData.v) # <<>>
                    /\ fm[tickets[m].path] = tickets[m].fmData

\* C8 (as claimed): createOrUpdateTermPage and updateField never reject
NeverRejects ==
  \A t \in Tasks :
    op[t].kind \in {"updateField", "update", "create"} => op[t].outcome # "rejected"

\* C9 (as claimed): the update path shows "Successfully updated" only if a write
\* changed the note, and "HAS NOT been updated" whenever none did
NoticeTellsTheTruth ==
  \A t \in Tasks :
    (op[t].kind = "update" /\ op[t].pc = "done" /\ op[t].outcome = "file")
      => /\ op[t].notice = "updated" => op[t].changed
         /\ ~op[t].changed => op[t].notice = "notUpdated"

\* C10 (as claimed): an update with a non-blank example on a note with fewer than
\* 3 examples makes the Examples field existing + "<br>" + incoming (incoming alone
\* when there is none); with 3 or more the field is unchanged
ExamplesAccumulate ==
  \A t \in Tasks :
    ( /\ op[t].kind = "update" /\ op[t].pc = "done" /\ op[t].outcome = "file"
      /\ "examples" \in op[t].term.def /\ Trim(op[t].term.examples) # <<>>
      /\ \A u \in Tasks : u > t => op[u].pc = "idle" )
    => LET existing == getInlineFieldValue(op[t].seen, "Examples")
           incoming == Trim(op[t].term.examples)
           count == IF existing = <<>> THEN 0 ELSE SplitCount(existing)
           after == getInlineFieldValue(content[op[t].path], "Examples")
       IN IF count >= 3 THEN after = existing
          ELSE IF count = 0 THEN after = incoming
          ELSE after = existing \o <<BR>> \o incoming

-----------------------------------------------------------------------------
(* DictionaryService: properties *)

\* C6 (as claimed): a getDictionary() call that starts after invalidateCache()
\* returns a collection built from storage as read after that invalidation
FreshAfterInvalidate ==
  \A c \in Callers :
    (call[c].pc = "done" /\ call[c].res # NoCache)
      => gens[call[c].res].readInv >= call[c].startInv

\* C7 (as claimed): while no invalidateCache() happens, every call that starts
\* before t + TTL, t the time a rebuild published its collection, returns that
\* identical array without a rescan, and a call that starts at or after t + TTL
\* while that collection is the cached one (and the folder is there) rescans and
\* publishes a new one
SameArrayWithinTTL ==
  \A c \in Callers : \A g \in DOMAIN gens :
    ( /\ call[c].pc = "done"
      /\ g <= call[c].gensAtStart
      /\ gens[g].pubInv = call[c].startInv )
    => /\ call[c].startTime < gens[g].pubTime + cacheTTL
            => call[c].hit /\ call[c].res = g
       /\ ( /\ call[c].startTime >= gens[g].pubTime + cacheTTL
            /\ g = call[c].gensAtStart /\ call[c].folderAtStart )
            => ~call[c].hit /\ call[c].res > call[c].gensAtStart

\* C7 (amended): the collection a call finds is the one published last; when it
\* was published after the last invalidation and less than TTL before the call
\* starts, the call returns that identical array without a rescan; otherwise the
\* call rescans, and publishes a new collection unless the folder is missing
LatestArrayWithinTTL ==
  \A c \in Callers :
    call[c].pc = "done"
      => IF (LET g == call[c].gensAtStart
             IN IF g = 0 THEN FALSE
                ELSE /\ gens[g].pubInv = call[c].startInv
                     /\ call[c].startTime < gens[g].pubTime + cacheTTL)
         THEN call[c].hit /\ call[c].res = call[c].gensAtStart /\ call[c].entries = <<>>
         ELSE /\ ~call[c].hit
              /\ IF call[c].folderAtStart
                 THEN /\ call[c].res > call[c].gensAtStart
                      /\ Len(call[c].entries) = Len(DictFiles)
                      /\ gens[call[c].res].entries = call[c].entries
                      /\ gens[call[c].res].pubTime >= call[c].startTime
                 ELSE call[c].res = NoCache /\ call[c].entries = <<>>

\* A collection was served from the cache, and a later call that found the same
\* collection exactly TTL old has rescanned and published a new one
WitnessLatestArrayWithinTTL ==
  \E d \in Callers :
    /\ call[d].pc = "done" /\ ~call[d].hit /\ call[d].res > call[d].gensAtStart
    /\ call[d].gensAtStart > 0
    /\ IF call[d].gensAtStart = 0 THEN FALSE
       ELSE /\ gens[call[d].gensAtStart].served
            /\ gens[call[d].gensAtStart].pubInv = call[d].startInv
            /\ call[d].startTime = gens[call[d].gensAtStart].pubTime + cacheTTL

-----------------------------------------------------------------------------
(* Ask-AI flow: properties *)

\* askForTerm has returned
AskReturned == ask.pc \in {"answered", "closed", "failed"}

\* C11 (as claimed): when the first ask returns the rate-limit signal, askForTerm
\* creates exactly one fresh thread and asks the term exactly once more; a retry
\* that is rate-limited or empty makes it return a failure; the term is never
\* asked more than twice
RetriesExactlyOnce ==
  /\ ask.asked <= 2
  /\ (AskReturned /\ ask.asked >= 1 /\ ask.first.k = "rate")
       => /\ ask.threads = 1 /\ ask.asked = 2
          /\ ask.retry.k \in {"null", "rate"} => ask.response = RespNull

\* C11 (amended): after the rate-limit signal askForTerm tries to create one fresh
\* thread; it asks the term once more exactly when the thread was created and the
\* settings were saved, and otherwise returns a failure (null or the error
\* message) without asking again; a retry that is rate-limited or empty makes it
\* return null; the term is never asked more than twice and no second thread is
\* created; without the rate-limit signal there is no retry
RetriesAtMostOnce ==
  /\ ask.asked <= 2 /\ ask.threads <= 1
  /\ ask.threads = 1 => (ask.asked >= 1 /\ ask.first.k = "rate")
  /\ ask.asked = 2 => ask.threads = 1
  /\ (AskReturned /\ ask.asked >= 1 /\ ask.first.k = "rate")
       => /\ ask.asked = 1 => ask.response.k \in {"null", "string"}
          /\ (ask.asked = 2 /\ ask.retry.k \in {"null", "rate"}) => ask.response = RespNull
  /\ (AskReturned /\ ask.asked >= 1 /\ ask.first.k # "rate")
       => ask.asked = 1 /\ ask.threads = 0

\* The first ask and the retry were both rate-limited: one thread, two asks, null
WitnessRetriesAtMostOnce ==
  /\ ask.pc = "answered" /\ ask.first.k = "rate" /\ ask.retry.k = "rate"
  /\ ask.asked = 2 /\ ask.threads = 1 /\ ask.response = RespNull

\* C12 (as claimed): when the collaborator fails or its answer does not have the
\* expected shape, the Ask-AI flow leaves the vault as it was: no note is
\* created and no note is modified
NothingWrittenOnBadAnswer ==
  \* the collaborator failed, or its answer is not JSON, or is JSON that is not an
  \* object, or is an object with none of the expected fields
  LET LastAnswer == IF ask.asked = 2 THEN ask.retry ELSE ask.first
      badAnswer == \/ ask.asked = 0
                   \/ ask.response.k \in {"null", "string"}
                   \/ LastAnswer.k \in {"null", "rate"}
                   \/ ~LastAnswer.json
                   \/ LastAnswer.v.k # "object"
                   \/ LastAnswer.v.f.def = {}
  IN (ask.pc \in {"closed", "failed"} /\ badAnswer)
       => NoteOf(exists, content, fm) = ask.before

-----------------------------------------------------------------------------
(* DictionaryService scan and parseFileToEntry: properties *)

\* C13 (as claimed, without the logging): a file that fails extraction is left
\* out of the result, the other files are in the result, and getDictionary()
\* does not reject
BadFilesSkipped ==
  LET failsExtraction(file) == ~file.cache \/ ~file.fmOk \/ ~file.readable
      hasEntry(file) ==
        \E k \in 1..Len(result.entries) : result.entries[k].basename = file.basename
  IN (result # <<>> /\ result.outcome # "scanning")
       => /\ result.outcome = "returned"
          /\ \A i \in 1..Len(arg) :
               IF failsExtraction(arg[i]) THEN ~hasEntry(arg[i]) ELSE hasEntry(arg[i])

\* C17 (as claimed): the revision of the entry of a note is the first non-blank
\* candidate among inline Revision, inline revision, front-matter Revision and
\* front-matter revision, trimmed (a number such as 0 keeps its text) and "new"
\* for "new" in any letter case; it is "new" when every candidate is blank
RevisionIsFirstCandidate ==
  LET blank(x) == x.t \in {"undefined", "null"} \/ Trim(x.v) = <<>>
      normalised(x) ==
        IF ToLowerCase(Trim(x.v)) = NewRevision THEN NewRevision ELSE Trim(x.v)
      file == arg[1]
      cs == << InlineField(file.body, "Revision"), InlineField(file.body, "revision"),
               file.fm.Revision, file.fm.revision >>
  IN (/\ result # <<>> /\ result.outcome = "returned" /\ Len(arg) = 1
      /\ file.cache /\ file.fmOk /\ file.readable)
       => /\ Len(result.entries) = 1
          /\ IF \A i \in 1..4 : blank(cs[i])
             THEN result.entries[1].revision = NewRevision
             ELSE \E i \in 1..4 : /\ ~blank(cs[i])
                                  /\ \A j \in 1..(i - 1) : blank(cs[j])
                                  /\ result.entries[1].revision = normalised(cs[i])

-----------------------------------------------------------------------------
(* Properties: createTermFile, then getDictionary *)

\* The value a created note holds for a field of the term
Stored(term, key) == IF Truthy(term, key) THEN Trim(term[key]) ELSE <<>>

\* C14: once createTermFile has returned the note of a term, the note holds the
\* source-language value in its front matter and Type and Context as inline
\* fields, and getDictionary() returns exactly one entry for the note, with the
\* target word, the source word, the type and the context of the term and
\* revision "new"
CreatedTermIsListed ==
  \A t \in Tasks :
    (op[t].kind = "create" /\ op[t].pc = "done" /\ op[t].outcome = "file") =>
      LET p == op[t].path
          term == op[t].term
          entriesOf == {k \in 1..Len(result.entries) : result.entries[k].basename = Basename(p)}
      IN /\ exists[p]
         /\ YamlValue(fm[p]) = JsStr(Stored(term, "sourceTerm"))
         /\ getInlineFieldValue(content[p], "Type") = Stored(term, "type")
         /\ getInlineFieldValue(content[p], "Context") = Stored(term, "context")
         /\ result # <<>> =>
              /\ Cardinality(entriesOf) = 1
              /\ \A k \in entriesOf :
                   /\ result.entries[k].targetWord = ToLowerCase(Basename(p))
                   /\ result.entries[k].sourceWord = ToLowerCase(Stored(term, "sourceTerm"))
                   /\ result.entries[k].type = Stored(term, "type")
                   /\ result.entries[k].context = Stored(term, "context")
                   /\ result.entries[k].revision = NewRevision

\* C14 happens: on the empty vault the greeting was created at "a.md" and nothing
\* else, and getDictionary() has returned one entry, the greeting's
WitnessCreatedTermIsListed ==
  /\ result # <<>>
  /\ op[1].kind = "create" /\ op[1].pc = "done" /\ op[1].outcome = "file"
  /\ op[1].path = "a.md" /\ op[2].pc = "idle" /\ ~exists["b.md"]
  /\ op[1].term.type = <<"#", "expression">>
  /\ Len(result.entries) = 1
  /\ result.entries[1].sourceWord = <<"h", "o", "l", "a">>
  /\ result.entries[1].type = <<"#", "expression">>
  /\ result.entries[1].context = <<"#", "social", "/", "greetings">>
  /\ result.entries[1].revision = NewRevision

-----------------------------------------------------------------------------
(* Properties: FilterService *)

\* Entry e satisfies every filter of f whose value is neither absent, nor
\* empty, nor "all": substring without letter case, or equality
Satisfies(e, f) ==
  LET constrains(filterValue) == filterValue.t = "string" /\ filterValue.v \notin {<<>>, All}
      containsFolded(value, filterValue) ==
        \E i \in 0..(Len(value) - Len(filterValue)) :
          \A j \in 1..Len(filterValue) : LowerChar(value[i + j]) = LowerChar(filterValue[j])
  IN /\ \A key \in {"targetWord", "sourceWord", "type", "context"} :
          constrains(f[key]) => containsFolded(e[key], f[key].v)
     /\ \A key \in {"revision", "rating"} : constrains(f[key]) => e[key] = f[key].v
     /\ constrains(f.group) => e.Group = f.group
     /\ constrains(f.irregular) =>
          \/ e.Irregular = f.irregular
          \/ f.irregular.v = <<"i", "1">> /\ e.Irregular.t = "string"
               /\ e.Irregular.v # <<>> /\ e.Irregular.v[1] = "i"

\* C15: applyFilters returns the entries that satisfy every filter whose value is
\* neither empty nor "all", in their original order (substring without letter
\* case for targetWord, sourceWord, type and context, equality for revision and
\* rating), and the caller's array is left as it was
FiltersSelect ==
  (result # <<>> /\ result.fn = "applyFilters") =>
    /\ result.outcome = "returned"
    /\ result.out = SelectSeq(arg.entries, LAMBDA e : Satisfies(e, arg.filters))
    /\ result.entries = arg.entries

\* C15 happens: a type filter in upper case keeps the second of two entries, whose
\* type holds the filter in lower case inside a tag, and drops the first
WitnessFiltersSelect ==
  /\ result # <<>> /\ result.fn = "applyFilters"
  /\ arg.filters.type = JsStr(<<"N", "/", "e">>)
  /\ ~Defined(arg.filters.revision)
  /\ Len(arg.entries) = 2 /\ Len(result.out) = 1
  /\ result.out[1] = arg.entries[2]
  /\ result.out[1].type = <<"#", "n", "/", "e", "/", "w">>

\* C16 (as claimed): getUniqueValues returns "all" first, then the distinct values
\* in sorted order; every trimmed token is a value, and with a value that starts
\* with "#" all its hierarchical prefixes (the value cut before each "/") are
\* values too
UniqueValuesClosed ==
  (result # <<>> /\ result.fn = "getUniqueValues") =>
    LET out == result.out
        value(k) == FieldValue(arg.entries[k], result.property)
        tokens == { Trim(v) : v \in UNION { IF Defined(value(k))
                                            THEN Range(Split(value(k).v, ","))
                                            ELSE {} : k \in 1..Len(arg.entries) } } \ {<<>>}
        prefixes(tag) == {SubSeq(tag, 1, i - 1) : i \in {j \in 1..Len(tag) : tag[j] = "/"}}
    IN /\ out[1] = All
       /\ \A i, j \in 1..Len(out) : i # j => out[i] # out[j]
       /\ \A i \in 2..(Len(out) - 1) : Before(out[i], out[i + 1])
       /\ tokens \subseteq Range(out)
       /\ \A v \in Range(out) : StartsWith(v, <<"#">>) => prefixes(v) \subseteq Range(out)

-----------------------------------------------------------------------------
(* Properties: enrichVerbEntry *)

\* C18: Group is the group of the first rule, in the order régulier/1, régulier/2,
\* irrégulier/3/ir, irrégulier/3/oir, irrégulier/3/re, irrégulier/3, irrégulier,
\* whose tag the type holds, "" when there is none; Irregular is "i" exactly when
\* the type holds #verbe/irrégulier; #verbe/irrégulier/3/oir gives "3oir" and "i"
GroupIsFirstRule ==
  LET rules ==
        << [tag |-> Verbe \o Regulier \o <<"/", "1">>, group |-> <<"1">>],
           [tag |-> Verbe \o Regulier \o <<"/", "2">>, group |-> <<"2">>],
           [tag |-> Verbe \o Irregulier \o <<"/", "3", "/", "i", "r">>, group |-> <<"3", "i", "r">>],
           [tag |-> Verbe \o Irregulier \o <<"/", "3", "/", "o", "i", "r">>,
            group |-> <<"3", "o", "i", "r">>],
           [tag |-> Verbe \o Irregulier \o <<"/", "3", "/", "r", "e">>, group |-> <<"3", "r", "e">>],
           [tag |-> Verbe \o Irregulier \o <<"/", "3">>, group |-> <<"3">>],
           [tag |-> Verbe \o Irregulier, group |-> <<"i">>] >>
      holdsTag(type, tag) ==
        \E i \in 1..Len(type) :
          \A j \in 1..Len(tag) : i + j - 1 <= Len(type) /\ type[i + j - 1] = tag[j]
      M == {i \in 1..Len(rules) : holdsTag(arg, rules[i].tag)}
  IN result # <<>> =>
       /\ IF M = {} THEN result.Group = <<>>
          ELSE \E i \in M : (\A j \in M : i <= j) /\ result.Group = rules[i].group
       /\ result.Irregular = <<"i">> <=> holdsTag(arg, Verbe \o Irregulier)
       /\ result.Irregular \in {<<>>, <<"i">>}
       /\ arg = Verbe \o Irregulier \o <<"/", "3", "/", "o", "i", "r">>
            => result.Group = <<"3", "o", "i", "r">> /\ result.Irregular = <<"i">>

\* C18 happens: #verbe/irrégulier/3/oir has been enriched to "3oir" and "i"
WitnessGroupIsFirstRule ==
  /\ result # <<>>
  /\ arg = Verbe \o Irregulier \o <<"/", "3", "/", "o", "i", "r">>
  /\ result.Group = <<"3", "o", "i", "r">>
  /\ result.Irregular = <<"i">>

-----------------------------------------------------------------------------
(* Properties: withFileLock across paths, and the size of the map *)

\* C19: a queued mutation whose path has no earlier unfinished mutation may start
\* its body, whatever is queued or running for the other paths; the promise it
\* waits for belongs to its own path
OtherPathsNeverDelay ==
  \A k \in 1..Len(tickets) :
    /\ tickets[k].prev # 0 => tickets[tickets[k].prev].path = tickets[k].path
    /\ (/\ tickets[k].st = "queued"
        /\ \A j \in 1..(k - 1) : tickets[j].path = tickets[k].path => tickets[j].released)
         => PreviousResolved(k)

\* C19 happens: the body of a mutation of "b.md" has started although a mutation
\* of "a.md" requested before it is still running
WitnessOtherPathsNeverDelay ==
  \E j, k \in 1..Len(tickets) :
    /\ j < k
    /\ tickets[j].path = "a.md" /\ tickets[j].st = "read" /\ ~tickets[j].released
    /\ tickets[k].path = "b.md" /\ tickets[k].st = "read"

\* C20: a path for which no mutation is queued or running has no entry in
\* fileLocks; when every mutation has finished the map is empty
NoEntryWhenDrained ==
  \A p \in Paths :
    (\A k \in 1..Len(tickets) : tickets[k].path = p => tickets[k].released)
      => fileLocks[p] = 0

\* C20 happens: two mutations of one path were chained, both have finished and
\* the map is empty
WitnessNoEntryWhenDrained ==
  /\ \E k \in 1..Len(tickets) : tickets[k].prev # 0
  /\ \A k \in 1..Len(tickets) : tickets[k].released
  /\ \A p \in Paths : fileLocks[p] = 0

\* C21 (as claimed): an effective inline write of F with value v replaces the first
\* line "F::" / "F ::" by "F:: v" and leaves every other line as it is; when the note
\* has no such line, "F:: v" is added after the last inline-field line
InlineRewriteReplacesOrInserts ==
  [][\A t \in Tasks :
       WriteStep(t) =>
         LET p == op[t].path
             w == tickets[op[t].ticket].w
             i == MatchIdx(content[p], w.field, TRUE)
             line == Line(w.field, 0, <<" ">> \o Trim(w.value))
         IN (w.kind = "inline" /\ Effective(w))
              => content'[p] = IF i = 0 THEN Append(content[p], line)
                               ELSE [content[p] EXCEPT ![i] = line]]_vars

\* C22 (as claimed): the verbs getVerbs() serves from its cache were computed from
\* the collection that getDictionary() serves at that moment
VerbsOfServedDictionary ==
  \A c \in Callers :
    (call[c].pc = "done" /\ call[c].verbsHit)
      => /\ dictionaryCache # NoCache
         /\ gens[dictionaryCache].entries
              = (IF call[c].res = -1 THEN <<>> ELSE gens[call[c].res].entries)

\* C23 (as claimed): polling for the completion of a run stops: the function
\* returns, whatever the service keeps reporting
PollingTerminates == <>(ask.pc = "returned")

\* C24 (as claimed): the group filter keeps the entries whose Group equals its
\* value, except that the value "i1" keeps every entry whose Irregular starts with "i"
GroupFilterHasSentinel ==
  (result # <<>> /\ result.fn = "applyFilters") =>
    LET f == arg.filters
        set(v) == v.t = "string" /\ v.v \notin {<<>>, All}
        matches(e) == IF f.group.v = <<"i", "1">>
                      THEN e.Irregular.v # <<>> /\ e.Irregular.v[1] = "i"
                      ELSE e.Group = f.group
    IN ( /\ set(f.group)
         /\ \A key \in DOMAIN f \ {"group"} : ~set(f[key]) )
         => result.out = SelectSeq(arg.entries, matches)

\* C24: the group filter keeps the entries whose Group equals its value, "i1"
\* included; the irregular filter keeps the entries whose Irregular equals its
\* value, and with the value "i1" every entry whose Irregular starts with "i"
VerbFiltersMatch ==
  (result # <<>> /\ result.fn = "applyFilters") =>
    LET f == arg.filters
        set(v) == v.t = "string" /\ v.v \notin {<<>>, All}
        matches(e) ==
          /\ set(f.group) => e.Group = f.group
          /\ set(f.irregular) =>
               IF f.irregular.v = <<"i", "1">>
               THEN e.Irregular.v # <<>> /\ e.Irregular.v[1] = "i"
               ELSE e.Irregular = f.irregular
    IN /\ \A k \in 1..Len(result.out) : matches(result.out[k])
       /\ (\A key \in DOMAIN f \ {"group", "irregular"} : ~set(f[key]))
            => result.out = SelectSeq(arg.entries, matches)

\* C24 happens: of two verbs the irregular filter "i1" keeps the one whose
\* Irregular is "i" and drops the regular one, whatever their groups
WitnessVerbFiltersMatch ==
  /\ result # <<>> /\ result.fn = "applyFilters"
  /\ arg.filters.irregular = JsStr(<<"i", "1">>)
  /\ \A key \in DOMAIN arg.filters \ {"irregular"} : ~Defined(arg.filters[key])
  /\ Len(arg.entries) = 2
  /\ arg.entries[1].Irregular = JsStr(<<>>)
  /\ arg.entries[2].Irregular = JsStr(<<"i">>)
  /\ result.out = <<arg.entries[2]>>

\* C25: the options of the type, context and revision dropdowns are "all" and the
\* values of the entries that satisfy every other filter, the field's own filter
\* ignored; a selected value (neither empty nor "all") is always one of the options
OptionsKeepSelection ==
  (result # <<>> /\ result.fn = "facetOptions") =>
    LET f == arg.filters
        selected == f[result.property]
        others == [f EXCEPT ![result.property] = JsUndef]
        facet == SelectSeq(arg.entries, LAMBDA e : Satisfies(e, others))
        offered == Range(getUniqueValues(facet, result.property))
        chosen == IF selected.t = "string" /\ selected.v # <<>> THEN {selected.v} ELSE {}
    IN /\ result.out[1] = All
       /\ Range(result.out) = offered \cup chosen
       /\ \A i, j \in 1..Len(result.out) : i # j => result.out[i] # result.out[j]

\* C25 happens: the revision filter drops the first of two entries, the selected
\* type is not a value of the remaining one, and the type options hold the
\* selection and the values of the remaining entry only
WitnessOptionsKeepSelection ==
  /\ result # <<>> /\ result.fn = "facetOptions" /\ result.property = "type"
  /\ arg.filters.type = JsStr(<<"N", "/", "e">>)
  /\ arg.filters.revision = JsStr(<<"1">>)
  /\ Len(arg.entries) = 2
  /\ arg.entries[1].revision # <<"1">> /\ arg.entries[2].revision = <<"1">>
  /\ arg.entries[1].type = <<"#", "n", "/", "e", "/", "w">>
  /\ result.out[2] = <<"N", "/", "e">>
  /\ Len(result.out) > 2
  /\ <<"#", "n", "/", "e", "/", "w">> \notin Range(result.out)

\* C26: when the body of a mutation throws, its lock is released (the map does not
\* keep its promise), the mutation queued behind it for the same path is free to
\* start, and only the caller of the failing mutation sees the exception: a call
\* that is rejected after a request of its own had a failed body of its own
ThrowReleasesLock ==
  /\ \A k \in DOMAIN tickets :
       tickets[k].st = "failed" =>
         /\ tickets[k].released
         /\ fileLocks[tickets[k].path] # k
         /\ op[tickets[k].task].pc = "done"
         /\ op[tickets[k].task].outcome \in {"rejected", "null"}
         /\ \A j \in DOMAIN tickets :
              (tickets[j].prev = k /\ tickets[j].st = "queued") => PreviousResolved(j)
  /\ \A t \in Tasks :
       (op[t].outcome = "rejected" /\ \E k \in DOMAIN tickets : tickets[k].task = t)
         => \E k \in DOMAIN tickets : tickets[k].task = t /\ tickets[k].st = "failed"

\* C26 happens: the body of a mutation threw while the mutation of another caller
\* was queued behind it, and the body of that one has started since
WitnessThrowReleasesLock ==
  \E j, k \in DOMAIN tickets :
    /\ tickets[j].prev = k /\ tickets[j].task # tickets[k].task
    /\ tickets[k].st = "failed"
    /\ tickets[j].st # "queued"
    /\ op[tickets[k].task].outcome = "rejected"

\* C27 (as claimed): after an effective updateField(path, F, v) on a note that has
\* a line for F, the inline fields extracted from the note as the dictionary scan
\* extracts them give the trimmed v for F
WriteThenScanRoundTrip ==
  [][\A t \in Tasks :
       WriteStep(t) =>
         LET p == op[t].path
             w == tickets[op[t].ticket].w
         IN ( /\ op[t].kind = "updateField" /\ w.kind = "inline" /\ Effective(w)
              /\ MatchIdx(content[p], w.field, TRUE) # 0 )
              => InlineField(content'[p], w.field) = JsStr(Trim(w.value))]_vars

\* C28: of the createOrUpdateTermPage calls that found no note for their term and
\* whose vault.create has returned or raised, exactly one created the note; every
\* other one has returned null and has requested no write (no note is removed)
OneCreatorPerTerm ==
  \A p \in Paths :
    LET C == {t \in Tasks : op[t].kind = "create" /\ op[t].path = p /\ op[t].pc # "create"}
    IN (C # {} /\ deleted = 0) =>
         \E t \in C :
           /\ op[t].outcome # "null"
           /\ op[t].pc = "done" => op[t].outcome = "file"
           /\ \A u \in C \ {t} :
                /\ op[u].pc = "done" /\ op[u].outcome = "null"
                /\ \A k \in DOMAIN tickets : tickets[k].task # u

\* C28 happens: two calls for the same missing term were in flight together, both
\* have returned, one with the note it created and wrote, the other with null
WitnessOneCreatorPerTerm ==
  \E t, u \in Tasks :
    /\ t # u /\ op[t].path = op[u].path
    /\ op[t].kind = "create" /\ op[u].kind = "create"
    /\ op[t].pc = "done" /\ op[u].pc = "done"
    /\ op[t].outcome = "file" /\ op[u].outcome = "null"
    /\ deleted = 0
    /\ \E k \in DOMAIN tickets : tickets[k].task = t /\ tickets[k].st = "done"

\* C29 (as claimed): with nextPage used only while hasNext and prevPage only while
\* hasPrev, pageStart stays a multiple of pageSize inside [0, outputCount), and a
\* nextPage raises currentPage (floor(pageStart / pageSize) + 1) by exactly one
PagesStayAligned ==
  [][ /\ result'.pageStart % result'.pageSize = 0
      /\ result'.pageStart >= 0 /\ result'.pageStart < result'.outputCount
      /\ result'.pageStart > result.pageStart
           => (result'.pageStart \div result'.pageSize) = (result.pageStart \div result.pageSize) + 1
    ]_vars

\* C30 (as claimed): when no timer is pending and no write is in progress (every
\* write having found its block), the block holds the filters the table shows
BlockFollowsFilters ==
  (result.persistTimer = "null" /\ result.writing = <<>> /\ ~result.missed)
    => result.block = result.ui

=============================================================================
